---- MODULE Spec2Model ----
(***************************************************************************)
(* Model of the AI news collector (src/ai_news_collector.py).              *)
(*                                                                         *)
(* Text is modelled as a sequence of atoms.  An atom is a one-character    *)
(* string ("a", "#", " ", "\n") or a named stand-in for a character or a   *)
(* fixed template fragment that is not ASCII ("WOL" for the Korean month   *)
(* suffix, "IL" for the day suffix, "TOC_EMOJI" for the bookmark-tabs      *)
(* emoji, "<!-- TOC_START -->" for the marker line, ...).  Files are text, *)
(* the file system is a function from path to text.                        *)
(***************************************************************************)
EXTENDS Integers, Sequences, FiniteSets, TLC

VARIABLES
    fs,         \* archive directory: path -> text of the file
    entries,    \* history: path of a daily file -> entries appended to it
    last,       \* history: the last operation, its input and its result
    ncalls,     \* number of operations performed so far
    notion,     \* remote database: the titles of its pages
    run,        \* AINewsBot.run: its arguments, position and counters
    collector,  \* NewsCollector.collect_news: its inputs and its result
    pure,       \* a call of a function without side effects: arguments, result
    daily       \* run_daily.main: its arguments, position, git commands, exit

vars == <<fs, entries, last, ncalls, notion, run, collector, pure, daily>>

----------------------------------------------------------------------------
(* Bounds *)

MaxCalls == 2

----------------------------------------------------------------------------
(* Text primitives (Python str operations used by the source) *)

NL == "\n"
SP == " "

Digits == <<"0", "1", "2", "3", "4", "5", "6", "7", "8", "9">>

IsDigit(c) == \E i \in 1..10 : Digits[i] = c

DigitVal(c) == (CHOOSE i \in 1..10 : Digits[i] = c) - 1

IsSpace(c) == c \in {SP, NL}

\* p in s
IsSubstr(p, s) ==
    \E i \in 0..(Len(s) - Len(p)) : SubSeq(s, i + 1, i + Len(p)) = p

\* s[:n]
Take(s, n) == SubSeq(s, 1, IF Len(s) < n THEN Len(s) ELSE n)

\* s[n:]
Drop(s, n) == SubSeq(s, n + 1, Len(s))

StartsWith(s, p) == Len(s) >= Len(p) /\ SubSeq(s, 1, Len(p)) = p

EndsWith(s, p) == Len(s) >= Len(p) /\ SubSeq(s, Len(s) - Len(p) + 1, Len(s)) = p

RECURSIVE LStrip(_)
LStrip(s) == IF s # <<>> /\ IsSpace(s[1]) THEN LStrip(Tail(s)) ELSE s

RECURSIVE RStrip(_)
RStrip(s) ==
    IF s # <<>> /\ IsSpace(s[Len(s)]) THEN RStrip(SubSeq(s, 1, Len(s) - 1)) ELSE s

Strip(s) == LStrip(RStrip(s))

\* s.split(sep) for a one-atom separator
RECURSIVE SplitOn(_, _)
SplitOn(s, sep) ==
    IF \A i \in 1..Len(s) : s[i] # sep
    THEN <<s>>
    ELSE LET i == CHOOSE k \in 1..Len(s) :
                      s[k] = sep /\ \A j \in 1..(k - 1) : s[j] # sep
         IN  <<SubSeq(s, 1, i - 1)>> \o SplitOn(Drop(s, i), sep)

\* sep.join(parts)
RECURSIVE Join(_, _)
Join(parts, sep) ==
    IF parts = <<>> THEN <<>>
    ELSE IF Len(parts) = 1 THEN parts[1]
    ELSE parts[1] \o sep \o Join(Tail(parts), sep)

\* s.replace(p, "") : every occurrence of p removed, left to right
RECURSIVE RemoveAll(_, _)
RemoveAll(s, p) ==
    IF p = <<>> \/ ~IsSubstr(p, s) THEN s
    ELSE LET i == CHOOSE k \in 0..(Len(s) - Len(p)) :
                      /\ SubSeq(s, k + 1, k + Len(p)) = p
                      /\ \A j \in 0..(k - 1) : SubSeq(s, j + 1, j + Len(p)) # p
         IN  SubSeq(s, 1, i) \o RemoveAll(Drop(s, i + Len(p)), p)

\* str(n) for n >= 0
RECURSIVE FmtInt(_)
FmtInt(n) ==
    IF n < 10 THEN <<Digits[n + 1]>>
    ELSE FmtInt(n \div 10) \o <<Digits[(n % 10) + 1]>>

\* f"{n:02d}"
Fmt02(n) == IF n < 10 THEN <<"0">> \o FmtInt(n) ELSE FmtInt(n)

\* a string int() accepts (digits only; surrounding blanks do not occur here)
IsInt(s) == s # <<>> /\ \A i \in 1..Len(s) : IsDigit(s[i])

\* int(s)
RECURSIVE IntOf(_)
IntOf(s) ==
    IF s = <<>> THEN 0
    ELSE 10 * IntOf(SubSeq(s, 1, Len(s) - 1)) + DigitVal(s[Len(s)])


Upper == <<"A", "B", "C", "D", "E", "F", "G", "H", "I", "J", "K", "L", "M",
           "N", "O", "P", "Q", "R", "S", "T", "U", "V", "W", "X", "Y", "Z">>

Lowers == <<"a", "b", "c", "d", "e", "f", "g", "h", "i", "j", "k", "l", "m",
            "n", "o", "p", "q", "r", "s", "t", "u", "v", "w", "x", "y", "z">>

\* the Hangul syllables that occur in modelled text, one atom per syllable
Hangul ==
    {
      "AE", "AE_N", "A_", "BAE", "BA_N", "BI", "BO", "BO_N", "BO_S", "CHEO", "CHEU", "CHU",
      "CHU_G", "CHU_L", "DA", "DAE", "DA_L", "DE", "DEU", "DEU_N", "DE_L", "DI", "DI_B", "DO_L",
      "EO", "EO_BS", "EO_N", "EU_M", "E_", "E_N", "GA", "GA_NG", "GEU", "GEU_L", "GI", "GI_NG",
      "GO", "GO_NG", "GU", "GU_G", "GWA", "GWA_N", "GYEO_L", "GYEO_NG", "GYU", "HA_G", "HA_N",
      "HEO", "HO_N", "HWA", "HYEO_NG", "IL", "I_", "I_N", "JA", "JE", "JEO_N", "JI", "JI_N",
      "JU_NG", "KA", "KAE_B", "KEO_B", "KEO_M", "KEU", "KEU_L", "KI", "KO", "KO_N", "MA",
      "MA_N", "MA_NG", "ME", "MEO", "MEO_L", "MEO_N", "MI", "MO", "MYEO_N", "NA", "NAE", "NA_L",
      "NEU_NG", "NI_M", "NI_NG", "NO_NG", "NYEON", "NYU", "O_", "O_L", "O_N", "PA", "PAE", "PE",
      "PEU", "PEU_N", "PI_G", "PO", "PYU", "RA", "REO", "REO_S", "RE_N", "RI", "RI_M", "RI_N",
      "RO", "RO_N", "RYA_NG", "RYEO_N", "SA", "SAE_M", "SAE_NG", "SA_NG", "SE", "SEO", "SEO_NG",
      "SEU", "SEU_B", "SEU_NG", "SI_N", "SO", "SSI", "SU", "SU_L", "SYA_S", "SYEO_N", "SYU",
      "TA", "TEO", "TEU", "TE_G", "TE_N", "TI", "TI_G", "TO_NG", "TU_N", "U_", "U_L", "U_N",
      "WE_B", "WO", "WOL", "WO_N", "YA", "YE", "YEO_L", "YEO_N", "YEO_NG", "YU_L",
      "DA_N", "GEU_M", "GWO_N", "JAE", "JA_G", "JO_H", "MU", "REU_N", "YO"
    }

\* c.lower()
LowerChar(c) ==
    IF \E i \in 1..26 : Upper[i] = c
    THEN Lowers[CHOOSE i \in 1..26 : Upper[i] = c]
    ELSE c

\* regex class \w (Unicode): letters, digits, underscore, Hangul
IsWordChar(c) ==
    \/ \E i \in 1..26 : Upper[i] = c \/ Lowers[i] = c
    \/ IsDigit(c)
    \/ c = "_"
    \/ c \in Hangul

\* code point order of the characters that occur in file names
CodeOrder == <<"-", ".", "/">> \o Digits \o Upper \o Lowers

CharCode(c) == CHOOSE i \in 1..Len(CodeOrder) : CodeOrder[i] = c

\* a < b for str
RECURSIVE LexLess(_, _)
LexLess(a, b) ==
    IF a = <<>> THEN b # <<>>
    ELSE IF b = <<>> THEN FALSE
    ELSE IF a[1] = b[1] THEN LexLess(Tail(a), Tail(b))
    ELSE CharCode(a[1]) < CharCode(b[1])

\* sorted(S, reverse=True)
RECURSIVE SortedDesc(_)
SortedDesc(S) ==
    IF S = {} THEN <<>>
    ELSE LET m == CHOOSE x \in S : \A y \in S : y = x \/ LexLess(y, x)
         IN  <<m>> \o SortedDesc(S \ {m})

\* d.get(k, default)
Get(d, k, default) == IF k \in DOMAIN d THEN d[k] ELSE default

----------------------------------------------------------------------------
(* Dates *)

\* datetime.now() in save_news, as a calendar date
Today == [year |-> 2025, month |-> 1, day |-> 3]

\* datetime.strptime(s, "%Y-%m-%d"): four-digit year, one or two digit
\* month and day; FALSE stands for ValueError.  Month lengths are not
\* modelled: a day number up to 31 is accepted in every month.
StrptimeOk(s) ==
    LET parts == SplitOn(s, "-")
    IN  /\ Len(parts) = 3
        /\ IsInt(parts[1]) /\ Len(parts[1]) = 4
        /\ IsInt(parts[2]) /\ Len(parts[2]) \in {1, 2}
        /\ IsInt(parts[3]) /\ Len(parts[3]) \in {1, 2}
        /\ IntOf(parts[2]) \in 1..12
        /\ IntOf(parts[3]) \in 1..31

Strptime(s) ==
    LET parts == SplitOn(s, "-")
    IN  [year |-> IntOf(parts[1]), month |-> IntOf(parts[2]),
         day |-> IntOf(parts[3])]

\* pub_date.strftime("%Y-%m-%d")
FmtDate(d) == FmtInt(d.year) \o <<"-">> \o Fmt02(d.month) \o <<"-">> \o Fmt02(d.day)

----------------------------------------------------------------------------
(* MarkdownArchive *)

H3 == <<"#", "#", "#", " ">>

TocStart == "<!-- TOC_START -->"

TocEnd == "<!-- TOC_END -->"

MdExt == <<".", "m", "d">>

ReadmeName == <<"R", "E", "A", "D", "M", "E", ".", "m", "d">>

Exists(files, p) == p \in DOMAIN files

\* open(p, "w").write(text)
WriteFile(files, p, text) ==
    [q \in DOMAIN files \cup {p} |-> IF q = p THEN text ELSE files[q]]

\* the try/except at the head of save_news
NewsDate(news) == IF StrptimeOk(news.date) THEN Strptime(news.date) ELSE Today

YearDir(d) == FmtInt(d.year)

MonthDir(d) == Fmt02(d.month) \o <<"WOL">>

DayName(d) == Fmt02(d.month) \o <<"-">> \o Fmt02(d.day)

\* md_file of save_news, as <<year, month directory, file name>>
MdFile(d) == <<YearDir(d), MonthDir(d), DayName(d) \o MdExt>>

\* variant: only the title is looked up
_is_duplicate_title_only(files, filepath, title, link) ==
    IF ~Exists(files, filepath) THEN FALSE
    ELSE IsSubstr(title, files[filepath])

_is_duplicate(files, filepath, title, link) ==
    IF ~Exists(files, filepath) THEN FALSE
    ELSE IsSubstr(title, files[filepath]) \/ IsSubstr(link, files[filepath])

\* re.sub(r"^\[\d{1,2}WOL\d{1,2}IL\]\s*", "", title)
StripKoreanTag(t) ==
    LET Matches(n1, n2) ==
            /\ Len(t) >= n1 + n2 + 4
            /\ t[1] = "["
            /\ \A i \in 2..(1 + n1) : IsDigit(t[i])
            /\ t[2 + n1] = "WOL"
            /\ \A i \in (3 + n1)..(2 + n1 + n2) : IsDigit(t[i])
            /\ t[3 + n1 + n2] = "IL"
            /\ t[4 + n1 + n2] = "]"
    IN  IF \E n1, n2 \in {1, 2} : Matches(n1, n2)
        THEN LET n == CHOOSE n \in 6..8 :
                          \E n1, n2 \in {1, 2} : n = n1 + n2 + 4 /\ Matches(n1, n2)
             IN  LStrip(Drop(t, n))
        ELSE t

\* re.sub(r"^\[\d{4}\.\d{2}\.\d{2}\]\s*", "", title)
StripDottedTag(t) ==
    IF /\ Len(t) >= 12
       /\ t[1] = "[" /\ t[6] = "." /\ t[9] = "." /\ t[12] = "]"
       /\ \A i \in {2, 3, 4, 5, 7, 8, 10, 11} : IsDigit(t[i])
    THEN LStrip(Drop(t, 12))
    ELSE t

CleanTitle(title) == StripDottedTag(StripKoreanTag(title))

\* the default importance and organization
ImportanceNormal == <<"PIN_EMOJI", " ", "IL", "BA_N">>

OrgOther == <<"GI", "TA">>

BodyCap == 1500

_format_news(news, analysis) ==
    LET importance == Get(analysis, "importance", ImportanceNormal)
        org == Get(analysis, "organization", OrgOther)
        techs == Join(Get(analysis, "technologies", <<>>), <<",", " ">>)
        summary == Get(analysis, "summary", <<>>)
        key_points == Get(analysis, "key_points", <<>>)
        content == news.content
        clean_content ==
            Strip(Take(content, BodyCap))
                \o (IF Len(content) > BodyCap THEN <<".", ".", ".">> ELSE <<>>)
        lines ==
            <<H3 \o CleanTitle(news.title), <<>>>>
            \o << <<">", " ", "CAL_EMOJI", " ", "*", "*">> \o news.date
                  \o <<"*", "*", " ", "|", " ", "*", "*">> \o importance
                  \o <<"*", "*", " ", "|", " ">> \o org
                  \o <<" ", "|", " ">> \o news.source >>
            \o (IF techs # <<>> THEN << <<">", " ", "TAG_EMOJI", " ">> \o techs >>
                ELSE <<>>)
            \o << <<>> >>
            \o (IF summary # <<>>
                THEN << <<"*", "*", "BULB_EMOJI", " ", "SUMMARY_KO", "*", "*">>,
                        summary, <<>> >>
                ELSE <<>>)
            \o (IF key_points # <<>>
                THEN << <<"*", "*", "PIN_EMOJI", " ", "KEYPOINTS_KO", "*", "*">> >>
                     \o [i \in 1..Len(Take(key_points, 5)) |->
                            <<"-", " ">> \o key_points[i]]
                     \o << <<>> >>
                ELSE <<>>)
            \o (IF content # <<>>
                THEN << <<"<details>">>,
                        <<"<summary><b>", "PAGE_EMOJI", " ", "VIEW_SOURCE_KO",
                          "</b></summary>">>,
                        <<>>, clean_content, <<>>, <<"</details>">>, <<>> >>
                ELSE <<>>)
            \o << <<"LINK_EMOJI", " ", "[", "VIEW_SOURCE_KO", "]", "(">>
                  \o news.link \o <<")">>,
                  <<>>, <<"-", "-", "-">>, <<>> >>
    IN  Join(lines, <<NL>>)

_create_anchor(title) ==
    LET lowered == [i \in 1..Len(title) |-> LowerChar(title[i])]
        kept == SelectSeq(lowered,
                    LAMBDA c : IsWordChar(c) \/ IsSpace(c) \/ c = "-")
        \* re.sub(r"\s+", "-", anchor): a run of blanks becomes one hyphen
        hyphened ==
            LET F[i \in 0..Len(kept)] ==
                    IF i = 0 THEN <<>>
                    ELSE IF IsSpace(kept[i])
                         THEN IF i > 1 /\ IsSpace(kept[i - 1]) THEN F[i - 1]
                              ELSE Append(F[i - 1], "-")
                         ELSE Append(F[i - 1], kept[i])
            IN  F[Len(kept)]
        first == IF \E i \in 1..Len(hyphened) : hyphened[i] # "-"
                 THEN CHOOSE i \in 1..Len(hyphened) :
                          hyphened[i] # "-" /\ \A j \in 1..(i - 1) : hyphened[j] = "-"
                 ELSE Len(hyphened) + 1
        lastc == IF \E i \in 1..Len(hyphened) : hyphened[i] # "-"
                 THEN CHOOSE i \in 1..Len(hyphened) :
                          hyphened[i] # "-"
                          /\ \A j \in (i + 1)..Len(hyphened) : hyphened[j] = "-"
                 ELSE Len(hyphened)
    IN  SubSeq(hyphened, first, lastc)

\* the title a line contributes to the file's own table of contents:
\* re.match(r"### ([^#\n].+)", line)
TocMatch(line) ==
    StartsWith(line, H3) /\ Len(line) >= 6 /\ line[5] # "#"

TocTitles(content) ==
    LET ls == SelectSeq(SplitOn(content, NL), TocMatch)
    IN  [i \in 1..Len(ls) |-> Drop(ls[i], 4)]

TocDisplayCap == 60

\* re.sub(r"<!-- TOC_START -->.*?<!-- TOC_END -->", repl, content, flags=DOTALL)
RECURSIVE SubToc(_, _)
SubToc(content, repl) ==
    LET starts == {k \in 1..Len(content) : content[k] = TocStart}
        i == CHOOSE k \in starts : \A h \in starts : k <= h
        ends == {k \in (i + 1)..Len(content) : content[k] = TocEnd}
        j == CHOOSE k \in ends : \A h \in ends : k <= h
    IN  IF starts = {} THEN content
        ELSE IF ends = {} THEN content
        ELSE SubSeq(content, 1, i - 1) \o repl \o SubToc(Drop(content, j), repl)

_update_toc(files, filepath) ==
    LET content == files[filepath]
        titles == TocTitles(content)
        toc_lines ==
            [i \in 1..Len(titles) |->
                FmtInt(i) \o <<".", " ", "[">>
                \o (IF Len(titles[i]) > TocDisplayCap
                    THEN Take(titles[i], TocDisplayCap) \o <<".", ".", ".">>
                    ELSE titles[i])
                \o <<"]", "(", "#">> \o _create_anchor(titles[i]) \o <<")">>]
        toc_content == IF toc_lines # <<>> THEN Join(toc_lines, <<NL>>)
                       ELSE <<"(NO_NEWS_KO)">>
        new_content ==
            SubToc(content, <<TocStart, NL>> \o toc_content \o <<NL, TocEnd>>)
    IN  WriteFile(files, filepath, new_content)

\* news_date.strftime of the daily file's title line
DateTitle(d) ==
    FmtInt(d.year) \o <<"NYEON", " ">> \o Fmt02(d.month) \o <<"WOL", " ">>
    \o Fmt02(d.day) \o <<"IL">>

_append_to_file(files, filepath, content, news_date) ==
    IF ~Exists(files, filepath)
    THEN _update_toc(
            WriteFile(files, filepath,
                <<"#", " ", "ROBOT_EMOJI", " ", "A", "I", " ", "NEWS_KO", " ", "-", " ">>
                \o DateTitle(news_date) \o <<NL, NL>>
                \o <<"#", "#", " ", "TOC_EMOJI", " ", "CONTENTS_KO", NL, NL>>
                \o <<TocStart, NL>>
                \o <<TocEnd, NL, NL>>
                \o <<"-", "-", "-", NL, NL>>
                \o content),
            filepath)
    ELSE _update_toc(
            WriteFile(files, filepath, RStrip(files[filepath]) \o <<NL, NL>> \o content),
            filepath)


\* variant: README.md is read as one more daily file
DailyFiles_with_readme(files, year_dir, month_dir) ==
    {p[3] : p \in {q \in DOMAIN files :
                      /\ q[1] = year_dir /\ q[2] = month_dir
                      /\ EndsWith(q[3], MdExt)}}

\* the daily files of a month directory: f.endswith(".md") and f != "README.md"
DailyFiles(files, year_dir, month_dir) ==
    {p[3] : p \in {q \in DOMAIN files :
                      /\ q[1] = year_dir /\ q[2] = month_dir
                      /\ EndsWith(q[3], MdExt) /\ q[3] # ReadmeName}}

\* variant: the contents heading is not excluded
IndexMatch_no_lookahead(line) ==
    StartsWith(line, H3) /\ Len(line) >= 5

\* a line the monthly index counts: re.findall(r"^### (?!TOC_EMOJI)(.+)", MULTILINE)
IndexMatch(line) ==
    StartsWith(line, H3) /\ Len(line) >= 5 /\ line[5] # "TOC_EMOJI"

NewsTitles(content) ==
    LET ls == SelectSeq(SplitOn(content, NL), IndexMatch)
    IN  [i \in 1..Len(ls) |-> Drop(ls[i], 4)]

IndexDisplayCap == 50

\* the "> total **N** ..." line of README.md
TotalPrefix == <<">", " ", "TOTAL_KO", " ", "*", "*">>

\* body of the loop over daily_files: the lines one daily file contributes
IndexSection(files, year_dir, month_dir, daily_file) ==
    LET day_name == RemoveAll(daily_file, MdExt)
        parts == SplitOn(day_name, "-")
        display_date ==
            IF Len(parts) = 2 /\ IsInt(parts[1]) /\ IsInt(parts[2])
            THEN FmtInt(IntOf(parts[1])) \o <<"WOL", " ">>
                 \o FmtInt(IntOf(parts[2])) \o <<"IL">>
            ELSE day_name
        news_titles == NewsTitles(files[<<year_dir, month_dir, daily_file>>])
    IN  << <<NL, "#", "#", "#", " ", "CAL_EMOJI", " ">> \o display_date
              \o <<" ", "(">> \o FmtInt(Len(news_titles)) \o <<"GEON_KO", ")">>,
           <<"PAGE_EMOJI", " ", "[">> \o day_name \o MdExt \o <<"]", "(", ".", "/">>
              \o daily_file \o <<")", NL>> >>
        \o [i \in 1..Len(news_titles) |->
              <<"-", " ">>
              \o (IF Len(news_titles[i]) > IndexDisplayCap
                  THEN Take(news_titles[i], IndexDisplayCap) \o <<".", ".", ".">>
                  ELSE news_titles[i])]

RECURSIVE IndexToc(_, _, _, _)
IndexToc(files, year_dir, month_dir, daily_files) ==
    IF daily_files = <<>> THEN <<>>
    ELSE IndexSection(files, year_dir, month_dir, daily_files[1])
         \o IndexToc(files, year_dir, month_dir, Tail(daily_files))

RECURSIVE IndexTotal(_, _, _, _)
IndexTotal(files, year_dir, month_dir, daily_files) ==
    IF daily_files = <<>> THEN 0
    ELSE Len(NewsTitles(files[<<year_dir, month_dir, daily_files[1]>>]))
         + IndexTotal(files, year_dir, month_dir, Tail(daily_files))

\* month_dir is the pair <<year directory, month directory>>
_update_monthly_index(files, month_dir, news_date) ==
    LET index_file == <<month_dir[1], month_dir[2], ReadmeName>>
        month_title == FmtInt(news_date.year) \o <<"NYEON", " ">>
                       \o Fmt02(news_date.month) \o <<"WOL">>
        daily_files == SortedDesc(DailyFiles(files, month_dir[1], month_dir[2]))
        toc_content == IndexToc(files, month_dir[1], month_dir[2], daily_files)
        total_count == IndexTotal(files, month_dir[1], month_dir[2], daily_files)
        toc_text == Join([i \in 1..Len(toc_content) |-> <<NL>> \o toc_content[i]], <<>>)
        readme_content ==
            <<"#", " ", "ROBOT_EMOJI", " ", "A", "I", " ", "NEWS_ARCHIVE_KO", " ",
              "-", " ">> \o month_title \o <<NL, NL>>
            \o TotalPrefix \o FmtInt(total_count)
            \o <<"GEON_KO", "*", "*", "COLLECTED_KO", NL, NL>>
            \o <<"#", "#", " ", "TOC_EMOJI", " ", "CONTENTS_KO", NL, NL>>
            \o toc_text \o <<NL, NL>>
            \o <<"-", "-", "-", NL, NL>>
            \o <<"*", "GENERATED_KO", "*", NL>>
    IN  WriteFile(files, index_file, readme_content)

\* the value save_news returns
SaveNewsResult(files, news) ==
    ~_is_duplicate(files, MdFile(NewsDate(news)), news.title, news.link)

\* variant: the entry is appended without consulting the duplicate check
save_news_unguarded(files, news, analysis) ==
    LET news_date == NewsDate(news)
        md_file == MdFile(news_date)
    IN  _update_monthly_index(
            _append_to_file(files, md_file, _format_news(news, analysis), news_date),
            <<md_file[1], md_file[2]>>, news_date)

\* the files save_news leaves behind
save_news(files, news, analysis) ==
    LET news_date == NewsDate(news)
        md_file == MdFile(news_date)
    IN  IF _is_duplicate(files, md_file, news.title, news.link)
        THEN files
        ELSE _update_monthly_index(
                _append_to_file(files, md_file, _format_news(news, analysis), news_date),
                <<md_file[1], md_file[2]>>, news_date)

\* the month directories regenerate_all_indexes rebuilds
RegenMonths(files) ==
    {<<p[1], p[2]>> : p \in {q \in DOMAIN files :
                                /\ IsInt(q[1])
                                /\ IsSubstr(<<"WOL">>, q[2])
                                /\ DailyFiles(files, q[1], q[2]) # {}}}

RECURSIVE RegenFold(_, _)
RegenFold(files, months) ==
    IF months = {} THEN files
    ELSE LET m == CHOOSE x \in months : TRUE
             dummy_date == [year |-> IntOf(m[1]),
                            month |-> IntOf(RemoveAll(m[2], <<"WOL">>)),
                            day |-> 1]
         IN  RegenFold(_update_monthly_index(files, m, dummy_date), months \ {m})

regenerate_all_indexes(files) == RegenFold(files, RegenMonths(files))


----------------------------------------------------------------------------
(* Inputs of the archive operations *)

\* The letters of the titles and links below occur in none of the fixed ASCII
\* fragments of the file templates ("<details>", "<summary><b>", "AI", ...),
\* so treating those fragments as single atoms does not change the outcome
\* of a substring test for them.
Titles ==
    { <<"Q", "z">>,
      <<"[", "1", "WOL", "2", "IL", "]", " ", "Q", "z">>,
      <<"z">>,
      <<"TOC_EMOJI", "x">>,
      <<>> }

Links == { <<"v", "1">>, <<"v", "2">> }

Bodies == { <<"x", "y">> }

Dates ==
    { FmtDate([year |-> 2025, month |-> 1, day |-> 2]),
      FmtDate([year |-> 2025, month |-> 1, day |-> 3]),
      FmtDate([year |-> 2025, month |-> 2, day |-> 1]) }

NewsInputs ==
    [title : Titles, link : Links, content : Bodies, date : Dates,
     source : {<<"s">>}]

Analyses ==
    { [is_ai_related |-> TRUE, rejection_reason |-> <<>>, summary |-> <<"S">>,
       key_sentences |-> << <<"k">> >>, technologies |-> << <<"L", "L", "M">> >>,
       organization |-> OrgOther, importance |-> ImportanceNormal] }

----------------------------------------------------------------------------
(* The archive driven through its two public operations *)

NoOp == [op |-> "none"]

\* history of the entries appended to each daily file
Appended(hist, p, news) ==
    [q \in DOMAIN hist \cup {p} |->
        (IF q \in DOMAIN hist THEN hist[q] ELSE <<>>)
        \o (IF q = p
            THEN <<[title |-> CleanTitle(news.title), link |-> news.link]>>
            ELSE <<>>)]

\* no run of the bot is in progress
NoRun == [pc |-> "idle"]

\* no collection is in progress
NoCollect == [pc |-> "idle"]

NoPure == [pc |-> "idle"]

\* run_daily.main has not been started
NoDaily == [pc |-> "idle"]

Init ==
    /\ daily = NoDaily
    /\ fs = <<>>
    /\ entries = <<>>
    /\ last = NoOp
    /\ ncalls = 0
    /\ notion = {}
    /\ run = NoRun
    /\ collector = NoCollect
    /\ pure = NoPure

SaveNews ==
    /\ ncalls < MaxCalls
    /\ \E news \in NewsInputs, analysis \in Analyses :
          LET ret == SaveNewsResult(fs, news)
              p == MdFile(NewsDate(news))
          IN  /\ fs' = save_news(fs, news, analysis)
              /\ entries' = IF ret THEN Appended(entries, p, news) ELSE entries
              /\ last' = [op |-> "save_news", news |-> news, path |-> p, ret |-> ret]
    /\ ncalls' = ncalls + 1
    /\ UNCHANGED <<notion, run, collector, pure, daily>>

RegenerateAllIndexes ==
    /\ ncalls < MaxCalls
    /\ fs' = regenerate_all_indexes(fs)
    /\ last' = [op |-> "regenerate_all_indexes", ret |-> Cardinality(RegenMonths(fs))]
    /\ ncalls' = ncalls + 1
    /\ UNCHANGED <<entries, notion, run, collector, pure, daily>>

Next == SaveNews \/ RegenerateAllIndexes

Spec == Init /\ [][Next]_vars


----------------------------------------------------------------------------
(* Month directories holding arbitrary daily files, then index regeneration *)

MaxFileLines == 2

\* lines a hand-edited or legacy daily file may hold
ArbitraryLines ==
    { H3 \o <<"Q", "z">>,
      H3 \o <<"TOC_EMOJI", " ", "CONTENTS_KO">>,
      H3,
      <<"#", "#", "#", "#", " ", "q">> }

RECURSIVE LineSeqs(_)
LineSeqs(n) ==
    IF n = 0 THEN {<<>>}
    ELSE LineSeqs(n - 1)
         \cup {Append(ls, l) : ls \in {x \in LineSeqs(n - 1) : Len(x) = n - 1},
                               l \in ArbitraryLines}

ArbitraryTexts == {Join(ls, <<NL>>) : ls \in LineSeqs(MaxFileLines)}

ArbitraryPaths ==
    { MdFile([year |-> 2025, month |-> 1, day |-> 2]),
      MdFile([year |-> 2025, month |-> 1, day |-> 3]) }

InitRegen ==
    /\ daily = NoDaily
    /\ \E present \in (SUBSET ArbitraryPaths) \ {{}} :
          fs \in [present -> ArbitraryTexts]
    /\ entries = <<>>
    /\ last = NoOp
    /\ ncalls = 0
    /\ notion = {}
    /\ run = NoRun
    /\ collector = NoCollect
    /\ pure = NoPure

NextRegen == RegenerateAllIndexes

SpecRegen == InitRegen /\ [][NextRegen]_vars

----------------------------------------------------------------------------
(* NewsAnalyzer *)

ai_keywords ==
    <<
      <<"a", "i">>,
      <<"a", "r", "t", "i", "f", "i", "c", "i", "a", "l", " ", "i", "n", "t", "e", "l", "l", "i", "g", "e", "n", "c", "e">>,
      <<"I_N", "GO_NG", "JI", "NEU_NG">>,
      <<"m", "a", "c", "h", "i", "n", "e", " ", "l", "e", "a", "r", "n", "i", "n", "g">>,
      <<"MEO", "SI_N", "REO", "NI_NG">>,
      <<"d", "e", "e", "p", " ", "l", "e", "a", "r", "n", "i", "n", "g">>,
      <<"DI_B", "REO", "NI_NG">>,
      <<"n", "e", "u", "r", "a", "l", " ", "n", "e", "t", "w", "o", "r", "k">>,
      <<"SI_N", "GYEO_NG", "MA_NG">>, <<"l", "l", "m">>, <<"g", "p", "t">>,
      <<"c", "l", "a", "u", "d", "e">>, <<"g", "e", "m", "i", "n", "i">>,
      <<"c", "h", "a", "t", "g", "p", "t">>, <<"o", "p", "e", "n", "a", "i">>,
      <<"a", "n", "t", "h", "r", "o", "p", "i", "c">>,
      <<"t", "r", "a", "n", "s", "f", "o", "r", "m", "e", "r">>,
      <<"JA", "YEO_N", "EO", "CHEO", "RI">>, <<"n", "l", "p">>,
      <<"c", "o", "m", "p", "u", "t", "e", "r", " ", "v", "i", "s", "i", "o", "n">>,
      <<"KEO_M", "PYU", "TEO", " ", "BI", "JEO_N">>,
      <<"r", "e", "i", "n", "f", "o", "r", "c", "e", "m", "e", "n", "t", " ", "l", "e", "a", "r", "n", "i", "n", "g">>,
      <<"GA_NG", "HWA", "HA_G", "SEU_B">>,
      <<"g", "e", "n", "e", "r", "a", "t", "i", "v", "e", " ", "a", "i">>,
      <<"SAE_NG", "SEO_NG", "HYEO_NG", " ", "a", "i">>,
      <<"f", "o", "u", "n", "d", "a", "t", "i", "o", "n", " ", "m", "o", "d", "e", "l">>,
      <<"PA", "U_N", "DE", "I_", "SYEO_N", " ", "MO", "DE_L">>, <<"n", "v", "i", "d", "i", "a">>,
      <<"E_N", "BI", "DI", "A_">>, <<"g", "p", "u">>, <<"c", "u", "d", "a">>,
      <<"t", "e", "n", "s", "o", "r">>, <<"TE_N", "SEO">>, <<"CHU", "RO_N">>,
      <<"i", "n", "f", "e", "r", "e", "n", "c", "e">>
    >>

non_ai_keywords ==
    <<
      <<"GYEO_L", "HO_N">>, <<"I_", "HO_N">>, <<"YEO_L", "AE">>, <<"YEO_N", "YE">>,
      <<"A_", "I_", "DO_L">>, <<"DEU", "RA", "MA">>, <<"YE", "NEU_NG">>, <<"GA", "SU">>,
      <<"BAE", "U_">>, <<"CHU_G", "GU">>, <<"YA", "GU">>, <<"NO_NG", "GU">>,
      <<"O_L", "RI_M", "PI_G">>, <<"WOL", "DEU", "KEO_B">>,
      <<"GYEO_NG", "GI", " ", "GYEO_L", "GWA">>, <<"SEU_NG", "RI">>, <<"PAE", "BAE">>,
      <<"NA_L", "SSI">>, <<"GI", "O_N">>, <<"GA_NG", "SU", "RYA_NG">>, <<"MI", "SE", "MEO_N", "JI">>
    >>

ai_content_patterns ==
    <<
      <<"a", "i", "WE_B", "TU_N">>, <<"a", "i", "MA_N", "HWA">>, <<"a", "i", " ", "WE_B", "TU_N">>,
      <<"a", "i", " ", "MA_N", "HWA">>, <<"a", "i", "GEU", "RI_M">>,
      <<"a", "i", " ", "GEU", "RI_M">>, <<"a", "i", "I_", "MI", "JI">>,
      <<"a", "i", " ", "I_", "MI", "JI">>, <<"a", "i", "YEO_NG", "SA_NG">>,
      <<"a", "i", " ", "YEO_NG", "SA_NG">>, <<"a", "i", "I_", "SYU", "TEU", "RE_N", "DEU">>,
      <<"a", "i", " ", "I_", "SYU", "TEU", "RE_N", "DEU">>,
      <<"a", "i", " ", "I_", "SYU", " ", "TEU", "RE_N", "DEU">>,
      <<"[", "a", "i", "WE_B", "TU_N", "]">>, <<"[", "a", "i", "MA_N", "HWA", "]">>,
      <<"[", "a", "i", " ", "WE_B", "TU_N", "]">>, <<"[", "a", "i", " ", "MA_N", "HWA", "]">>
    >>

TECH_KEYWORDS ==
    <<
      [name |-> <<"L", "L", "M">>,
       keywords |-> <<
         <<"l", "l", "m">>,
         <<"l", "a", "r", "g", "e", " ", "l", "a", "n", "g", "u", "a", "g", "e", " ", "m", "o", "d", "e", "l">>,
         <<"g", "p", "t">>, <<"c", "l", "a", "u", "d", "e">>, <<"g", "e", "m", "i", "n", "i">>,
         <<"DAE", "HYEO_NG", "EO_N", "EO", "MO", "DE_L">>,
         <<"DAE", "GYU", "MO", " ", "EO_N", "EO", " ", "MO", "DE_L">>,
         <<"c", "h", "a", "t", "g", "p", "t">>
       >>],
      [name |-> <<"I_", "MI", "JI", " ", "SAE_NG", "SEO_NG">>,
       keywords |-> <<
         <<"i", "m", "a", "g", "e", " ", "g", "e", "n", "e", "r", "a", "t", "i", "o", "n">>,
         <<"d", "a", "l", "l", "-", "e">>, <<"m", "i", "d", "j", "o", "u", "r", "n", "e", "y">>,
         <<"s", "t", "a", "b", "l", "e", " ", "d", "i", "f", "f", "u", "s", "i", "o", "n">>,
         <<"I_", "MI", "JI", " ", "SAE_NG", "SEO_NG">>, <<"GEU", "RI_M", " ", "SAE_NG", "SEO_NG">>,
         <<"t", "e", "x", "t", "-", "t", "o", "-", "i", "m", "a", "g", "e">>
       >>],
      [name |-> <<"CHU", "RO_N", " ", "A", "I">>,
       keywords |-> <<
         <<"r", "e", "a", "s", "o", "n", "i", "n", "g">>, <<"o", "1">>, <<"o", "3">>,
         <<"c", "h", "a", "i", "n", " ", "o", "f", " ", "t", "h", "o", "u", "g", "h", "t">>,
         <<"CHU", "RO_N">>, <<"SA", "GO">>, <<"t", "h", "i", "n", "k", "i", "n", "g">>
       >>],
      [name |-> <<"E_", "I_", "JEO_N", "TEU">>,
       keywords |-> <<
         <<"a", "g", "e", "n", "t">>, <<"a", "g", "e", "n", "t", "i", "c">>,
         <<"E_", "I_", "JEO_N", "TEU">>, <<"JA", "YU_L", " ", "E_", "I_", "JEO_N", "TEU">>,
         <<"a", "u", "t", "o", "n", "o", "m", "o", "u", "s">>
       >>],
      [name |-> <<"MEO_L", "TI", "MO", "DA_L">>,
       keywords |-> <<
         <<"m", "u", "l", "t", "i", "m", "o", "d", "a", "l">>, <<"v", "i", "s", "i", "o", "n">>,
         <<"a", "u", "d", "i", "o">>, <<"MEO_L", "TI", "MO", "DA_L">>,
         <<"DA", "JU_NG", "MO", "DA_L">>, <<"BI", "JEO_N">>
       >>],
      [name |-> <<"O_", "PEU_N", "SO", "SEU">>,
       keywords |-> <<
         <<"o", "p", "e", "n", " ", "s", "o", "u", "r", "c", "e">>, <<"O_", "PEU_N", "SO", "SEU">>,
         <<"o", "p", "e", "n", "s", "o", "u", "r", "c", "e">>,
         <<"h", "u", "g", "g", "i", "n", "g", " ", "f", "a", "c", "e">>,
         <<"HEO", "GI_NG", "PE", "I_", "SEU">>
       >>],
      [name |-> <<"GA_NG", "HWA", "HA_G", "SEU_B">>,
       keywords |-> <<
         <<"r", "e", "i", "n", "f", "o", "r", "c", "e", "m", "e", "n", "t", " ", "l", "e", "a", "r", "n", "i", "n", "g">>,
         <<"r", "l">>, <<"r", "l", "h", "f">>, <<"GA_NG", "HWA", "HA_G", "SEU_B">>,
         <<"BO", "SA_NG", " ", "MO", "DE_L">>
       >>],
      [name |-> <<"RO", "BO", "TI_G", "SEU">>,
       keywords |-> <<
         <<"r", "o", "b", "o", "t">>, <<"r", "o", "b", "o", "t", "i", "c", "s">>, <<"RO", "BO_S">>,
         <<"RO", "BO", "TI_G", "SEU">>, <<"e", "m", "b", "o", "d", "i", "e", "d", " ", "a", "i">>
       >>],
      [name |-> <<"EU_M", "SEO_NG", "/", "O_", "DI", "O_">>,
       keywords |-> <<
         <<"v", "o", "i", "c", "e">>, <<"a", "u", "d", "i", "o">>, <<"s", "p", "e", "e", "c", "h">>,
         <<"t", "t", "s">>, <<"s", "t", "t">>, <<"EU_M", "SEO_NG">>, <<"O_", "DI", "O_">>,
         <<"w", "h", "i", "s", "p", "e", "r">>
       >>]
    >>

ORG_KEYWORDS ==
    <<
      [name |-> <<"O", "p", "e", "n", "A", "I">>,
       keywords |-> <<
         <<"o", "p", "e", "n", "a", "i">>, <<"c", "h", "a", "t", "g", "p", "t">>,
         <<"g", "p", "t", "-", "4">>, <<"g", "p", "t", "-", "5">>, <<"d", "a", "l", "l", "-", "e">>,
         <<"s", "a", "m", " ", "a", "l", "t", "m", "a", "n">>,
         <<"SAE_M", " ", "O_L", "TEU", "MEO_N">>
       >>],
      [name |-> <<"G", "o", "o", "g", "l", "e">>,
       keywords |-> <<
         <<"g", "o", "o", "g", "l", "e">>, <<"GU", "GEU_L">>,
         <<"d", "e", "e", "p", "m", "i", "n", "d">>, <<"DI_B", "MA", "I_N", "DEU">>,
         <<"g", "e", "m", "i", "n", "i">>, <<"JE", "MI", "NA", "I_">>, <<"b", "a", "r", "d">>
       >>],
      [name |-> <<"A", "n", "t", "h", "r", "o", "p", "i", "c">>,
       keywords |-> <<
         <<"a", "n", "t", "h", "r", "o", "p", "i", "c">>, <<"AE_N", "SEU", "RO", "PI_G">>,
         <<"c", "l", "a", "u", "d", "e">>, <<"KEU_L", "RO", "DEU">>
       >>],
      [name |-> <<"M", "e", "t", "a">>,
       keywords |-> <<
         <<"m", "e", "t", "a">>, <<"ME", "TA">>, <<"f", "a", "c", "e", "b", "o", "o", "k">>,
         <<"l", "l", "a", "m", "a">>, <<"RA", "MA">>
       >>],
      [name |-> <<"M", "i", "c", "r", "o", "s", "o", "f", "t">>,
       keywords |-> <<
         <<"m", "i", "c", "r", "o", "s", "o", "f", "t">>,
         <<"MA", "I_", "KEU", "RO", "SO", "PEU", "TEU">>, <<"c", "o", "p", "i", "l", "o", "t">>,
         <<"KO", "PA", "IL", "REO_S">>, <<"a", "z", "u", "r", "e">>
       >>],
      [name |-> <<"N", "V", "I", "D", "I", "A">>,
       keywords |-> <<
         <<"n", "v", "i", "d", "i", "a">>, <<"E_N", "BI", "DI", "A_">>, <<"c", "u", "d", "a">>,
         <<"g", "p", "u">>, <<"h", "1", "0", "0">>, <<"b", "l", "a", "c", "k", "w", "e", "l", "l">>
       >>],
      [name |-> <<"GU_G", "NAE", " ", "YEO_N", "GU", "GI", "GWA_N">>,
       keywords |-> <<
         <<"k", "a", "i", "s", "t">>, <<"KA", "I_", "SEU", "TEU">>, <<"SEO", "U_L", "DAE">>,
         <<"p", "o", "s", "t", "e", "c", "h">>, <<"PO", "SEU", "TE_G">>,
         <<"u", "n", "i", "s", "t">>, <<"e", "t", "r", "i">>,
         <<"HA_N", "GU_G", "JEO_N", "JA", "TO_NG", "SI_N", "YEO_N", "GU", "WO_N">>
       >>]
    >>

\* s.lower()
Lower(s) == [i \in 1..Len(s) |-> LowerChar(s[i])]

\* any(keyword in text for keyword in keywords)
AnyIn(keywords, text) == \E i \in 1..Len(keywords) : IsSubstr(keywords[i], text)

OccursAt(s, p, i) == i >= 1 /\ i + Len(p) - 1 <= Len(s) /\ SubSeq(s, i, i + Len(p) - 1) = p

\* regex a\s*b (gap of blanks) or a.*b (gap without a line break)
GapMatch(s, a, b, blanksOnly) ==
    \E i \in 1..Len(s), j \in 1..Len(s) :
        /\ OccursAt(s, a, i) /\ OccursAt(s, b, j) /\ j >= i + Len(a)
        /\ \A k \in (i + Len(a))..(j - 1) :
              IF blanksOnly THEN IsSpace(s[k]) ELSE s[k] # NL

\* regex a<gap>b<gap>c, each gap either \s* or .*
ChainMatch(s, a, b, c, blanks1, blanks2) ==
    \E i \in 1..Len(s), j \in 1..Len(s), k \in 1..Len(s) :
        /\ OccursAt(s, a, i) /\ OccursAt(s, b, j) /\ OccursAt(s, c, k)
        /\ j >= i + Len(a) /\ k >= j + Len(b)
        /\ \A h \in (i + Len(a))..(j - 1) :
              IF blanks1 THEN IsSpace(s[h]) ELSE s[h] # NL
        /\ \A h \in (j + Len(b))..(k - 1) :
              IF blanks2 THEN IsSpace(s[h]) ELSE s[h] # NL

\* the caption_patterns of _filter_image_captions, matched with re.IGNORECASE
IsCaption(sentence) ==
    LET s == Lower(sentence)
        Tagged(word) == StartsWith(s, word) /\ Len(s) > Len(word)
                        /\ s[Len(word) + 1] \in {"=", ":"}
    IN  \/ Tagged(<<"SA", "JI_N">>) \/ Tagged(<<"(", "SA", "JI_N">>)
        \/ Tagged(<<"I_", "MI", "JI">>) \/ Tagged(<<"(", "I_", "MI", "JI">>)
        \/ Tagged(<<"CHU_L", "CHEO">>) \/ Tagged(<<"(", "CHU_L", "CHEO">>)
        \/ StartsWith(s, <<"SA", "JI_N", " ", "JE", "GO_NG">>)
        \/ GapMatch(s, <<"BO_N", "JI">>, <<"d", "b">>, TRUE)
        \/ GapMatch(s, <<"JE", "GO_NG">>, <<"SA", "JI_N">>, TRUE)
        \/ GapMatch(s, <<"KAE_B", "CHEO">>, <<"HWA", "MYEO_N">>, TRUE)
        \/ IsSubstr(<<"SEU", "KEU", "RI_N", "SYA_S">>, s)
        \/ StartsWith(s, <<"TRIANGLE">>)
        \/ StartsWith(s, <<"[", "SA", "JI_N", "]">>)
        \/ ChainMatch(s, <<"a", "i">>, <<"SAE_NG", "SEO_NG">>, <<"I_", "MI", "JI">>,
                      TRUE, FALSE)
        \/ ChainMatch(s, <<"I_", "MI", "JI">>, <<"a", "i">>, <<"SAE_NG", "SEO_NG">>,
                      FALSE, TRUE)

MinSentenceLen == 20

MaxKeySentences == 5

_filter_image_captions(sentences) ==
    LET stripped == [i \in 1..Len(sentences) |-> Strip(sentences[i])]
        Keep(x) == x # <<>> /\ ~IsCaption(x) /\ Len(x) >= MinSentenceLen
    IN  Take(SelectSeq(stripped, Keep), MaxKeySentences)

SentenceEnd == {".", "!", "?", "IDEOGRAPHIC_STOP"}

\* re.split(r"[.!?IDEOGRAPHIC_STOP]\s+", content)
RECURSIVE SplitSentences(_)
SplitSentences(content) ==
    LET cuts == {i \in 1..(Len(content) - 1) :
                    content[i] \in SentenceEnd /\ IsSpace(content[i + 1])}
        i == CHOOSE k \in cuts : \A h \in cuts : k <= h
    IN  IF cuts = {} THEN <<content>>
        ELSE <<SubSeq(content, 1, i - 1)>> \o SplitSentences(LStrip(Drop(content, i)))

RejectGenerated ==
    <<"A", "I", "RO", " ", "MA_N", "DEU_N", " ", "KO_N", "TE_N", "CHEU", " ", "(", "A", "I",
      " ", "GI", "SU_L", " ", "NYU", "SEU", " ", "A_", "NI_M", ")">>

RejectNonAi ==
    <<"BI", "A", "I", " ", "GWA_N", "RYEO_N", " ", "KO_N", "TE_N", "CHEU", " ", "(", "YEO_N",
      "YE", "/", "SEU", "PO", "CHEU", "/", "IL", "BA_N", ")">>

RejectNoKeyword ==
    <<"A", "I", " ", "GWA_N", "RYEO_N", " ", "KI", "WO", "DEU", " ", "EO_BS", "EU_M">>

_fallback_analysis(title, content) ==
    LET text == Lower(title \o <<" ">> \o content)
        is_ai_generated_content == AnyIn(ai_content_patterns, Lower(title))
        has_ai_keyword == AnyIn(ai_keywords, text)
        has_non_ai_keyword == AnyIn(non_ai_keywords, text)
        matched_techs == SelectSeq(TECH_KEYWORDS, LAMBDA t : AnyIn(t.keywords, text))
        technologies == [i \in 1..Len(matched_techs) |-> matched_techs[i].name]
        matched_orgs == SelectSeq(ORG_KEYWORDS, LAMBDA o : AnyIn(o.keywords, text))
        pieces == SplitSentences(content)
        long == SelectSeq([i \in 1..Len(pieces) |-> Strip(pieces[i])],
                          LAMBDA x : x # <<>> /\ Len(x) > MinSentenceLen)
        raw_sentences == [i \in 1..Len(long) |-> long[i] \o <<".">>]
    IN  [is_ai_related |->
            has_ai_keyword /\ ~has_non_ai_keyword /\ ~is_ai_generated_content,
         rejection_reason |->
            IF is_ai_generated_content THEN RejectGenerated
            ELSE IF has_non_ai_keyword THEN RejectNonAi
            ELSE IF ~has_ai_keyword THEN RejectNoKeyword
            ELSE <<>>,
         summary |-> title,
         key_sentences |-> Take(_filter_image_captions(raw_sentences), 2),
         technologies |-> IF technologies # <<>> THEN Take(technologies, 3)
                          ELSE <<OrgOther>>,
         organization |-> IF matched_orgs # <<>> THEN matched_orgs[1].name ELSE OrgOther,
         importance |-> ImportanceNormal]

\* Values a classifier call hands back: None, or what json.loads made of the
\* response text.  object: a dict of classification fields; array: a list of
\* strings; string; number.
JNone == [kind |-> "none"]

JObject(fields) == [kind |-> "object", fields |-> fields]

JArray(items) == [kind |-> "array", items |-> items]

JString(text) == [kind |-> "string", text |-> text]

JNumber(n) == [kind |-> "number", n |-> n]

\* bool(response)
Truthy(v) ==
    CASE v.kind = "none" -> FALSE
      [] v.kind = "object" -> DOMAIN v.fields # {}
      [] v.kind = "array" -> v.items # <<>>
      [] v.kind = "string" -> v.text # <<>>
      [] v.kind = "number" -> v.n # 0

KeySentencesKey == <<"k", "e", "y", "_", "s", "e", "n", "t", "e", "n", "c", "e", "s">>

\* the result of analyze_news for a classifier call that either raised or
\* returned a value
analyze_news(title, content, call) ==
    LET response == call.value
        fallback == JObject(_fallback_analysis(title, content))
    IN  IF call.raised \/ ~Truthy(response) THEN fallback
        ELSE CASE response.kind = "object" ->
                    IF "key_sentences" \in DOMAIN response.fields
                    THEN JObject([response.fields EXCEPT !.key_sentences =
                                     _filter_image_captions(@)])
                    ELSE response
               [] response.kind = "array" ->
                    \* a list that holds the string: the item assignment raises
                    IF \E i \in 1..Len(response.items) :
                            response.items[i] = KeySentencesKey
                    THEN fallback ELSE response
               [] response.kind = "string" ->
                    IF IsSubstr(KeySentencesKey, response.text)
                    THEN fallback ELSE response
               [] response.kind = "number" ->
                    \* "key_sentences" in 5 raises TypeError
                    fallback

----------------------------------------------------------------------------
(* NewsCollector: dates *)

\* a parse that failed (ValueError, or the None of _parse_date_string)
NoDate == [ok |-> FALSE]

\* a datetime; aware tells whether tzinfo is set, offset is its UTC offset
\* in minutes
DateTime(y, mo, d, h, mi, s) ==
    [ok |-> TRUE, year |-> y, month |-> mo, day |-> d,
     hour |-> h, minute |-> mi, second |-> s, aware |-> FALSE, offset |-> 0]

IsLeap(y) == y % 4 = 0 /\ (y % 100 # 0 \/ y % 400 = 0)

DaysInMonth(y, m) ==
    IF m = 2 THEN (IF IsLeap(y) THEN 29 ELSE 28)
    ELSE IF m \in {4, 6, 9, 11} THEN 30 ELSE 31

\* the range checks of the datetime constructor
ValidDateTime(dt) ==
    /\ dt.year \in 1..9999
    /\ dt.month \in 1..12
    /\ dt.day \in 1..DaysInMonth(dt.year, dt.month)
    /\ dt.hour \in 0..23
    /\ dt.minute \in 0..59
    /\ dt.second \in 0..59
    /\ dt.offset \in -1439..1439

RECURSIVE DaysBeforeMonth(_, _)
DaysBeforeMonth(y, m) ==
    IF m = 1 THEN 0 ELSE DaysBeforeMonth(y, m - 1) + DaysInMonth(y, m - 1)

\* date.toordinal()
ToOrdinal(dt) ==
    LET y == dt.year - 1
    IN  365 * y + (y \div 4) - (y \div 100) + (y \div 400)
        + DaysBeforeMonth(dt.year, dt.month) + dt.day

\* a < b for naive datetimes
Before(a, b) ==
    LET ka == <<a.year, a.month, a.day, a.hour, a.minute, a.second>>
        kb == <<b.year, b.month, b.day, b.hour, b.minute, b.second>>
    IN  \E i \in 1..6 : ka[i] < kb[i] /\ \A j \in 1..(i - 1) : ka[j] = kb[j]

\* dt - timedelta(days=1)
PrevDay(dt) ==
    IF dt.day > 1 THEN [dt EXCEPT !.day = @ - 1]
    ELSE IF dt.month > 1
    THEN [dt EXCEPT !.month = @ - 1, !.day = DaysInMonth(dt.year, dt.month - 1)]
    ELSE [dt EXCEPT !.year = @ - 1, !.month = 12, !.day = 31]

\* dt - timedelta(days=days)
RECURSIVE MinusDays(_, _)
MinusDays(dt, days) ==
    IF days = 0 THEN dt ELSE MinusDays(PrevDay(dt), days - 1)

\* variant: tzinfo is kept
StripTz_kept(dt) == dt

\* pub_date.replace(tzinfo=None): the wall-clock fields stay as they are
StripTz(dt) == [dt EXCEPT !.aware = FALSE, !.offset = 0]

MonthNames ==
    << <<"j", "a", "n">>, <<"f", "e", "b">>, <<"m", "a", "r">>, <<"a", "p", "r">>,
       <<"m", "a", "y">>, <<"j", "u", "n">>, <<"j", "u", "l">>, <<"a", "u", "g">>,
       <<"s", "e", "p">>, <<"o", "c", "t">>, <<"n", "o", "v">>, <<"d", "e", "c">> >>

DayNames ==
    << <<"m", "o", "n">>, <<"t", "u", "e">>, <<"w", "e", "d">>, <<"t", "h", "u">>,
       <<"f", "r", "i">>, <<"s", "a", "t">>, <<"s", "u", "n">> >>

\* the value of the two digits at i, or -1
TwoDigits(text, i) ==
    IF i + 1 <= Len(text) /\ IsDigit(text[i]) /\ IsDigit(text[i + 1])
    THEN DigitVal(text[i]) * 10 + DigitVal(text[i + 1])
    ELSE -1

\* the value of the digit at i, or -1
OneDigit(text, i) ==
    IF i >= 1 /\ i <= Len(text) /\ IsDigit(text[i]) THEN DigitVal(text[i]) ELSE -1

\* the alternatives of a numeric directive, in the order the regular
\* expression of strptime tries them: two digits, then one
NumCands(text, i, field, two, one) ==
    (IF TwoDigits(text, i) \in two
     THEN << [len |-> 2, upd |-> field :> TwoDigits(text, i)] >> ELSE <<>>)
    \o (IF OneDigit(text, i) \in one
        THEN << [len |-> 1, upd |-> field :> OneDigit(text, i)] >> ELSE <<>>)

\* the alternatives of a name directive (%b, %a), matched ignoring case
NameCands(text, i, field, names) ==
    LET word == IF i + 2 <= Len(text) THEN Lower(SubSeq(text, i, i + 2)) ELSE <<>>
    IN  IF \E k \in 1..Len(names) : names[k] = word
        THEN << [len |-> 3,
                 upd |-> field :> (CHOOSE k \in 1..Len(names) : names[k] = word)] >>
        ELSE <<>>

\* the alternatives of %z: Z, or a sign, two hour digits, an optional colon
\* and two minute digits (offsets with seconds are left out)
ZoneCands(text, i) ==
    LET sign == IF text[i] = "-" THEN -1 ELSE 1
        hh == TwoDigits(text, i + 1)
        colon == i + 3 <= Len(text) /\ text[i + 3] = ":"
        mm == TwoDigits(text, IF colon THEN i + 4 ELSE i + 3)
    IN  IF i > Len(text) THEN <<>>
        ELSE IF text[i] = "Z"
        THEN << [len |-> 1, upd |-> ("aware" :> TRUE) @@ ("offset" :> 0)] >>
        ELSE IF text[i] \in {"+", "-"} /\ hh >= 0 /\ mm \in 0..59
        THEN << [len |-> IF colon THEN 6 ELSE 5,
                 upd |-> ("aware" :> TRUE) @@ ("offset" :> sign * (hh * 60 + mm))] >>
        ELSE <<>>

\* the lengths of the white space runs that start at i, longest first
RECURSIVE SpaceRun(_, _)
SpaceRun(text, i) ==
    IF i <= Len(text) /\ IsSpace(text[i]) THEN 1 + SpaceRun(text, i + 1) ELSE 0

SpaceCands(text, i) ==
    LET n == SpaceRun(text, i)
    IN  [k \in 1..n |-> [len |-> n + 1 - k, upd |-> "skip" :> 0]]

\* what one element of a format can match at position i of text
Candidates(tok, text, i) ==
    CASE tok = "%Y" ->
            IF i + 3 <= Len(text) /\ TwoDigits(text, i) >= 0 /\ TwoDigits(text, i + 2) >= 0
            THEN << [len |-> 4,
                     upd |-> "year" :> (TwoDigits(text, i) * 100 + TwoDigits(text, i + 2))] >>
            ELSE <<>>
      [] tok = "%m" -> NumCands(text, i, "month", 1..12, 1..9)
      [] tok = "%d" ->
            NumCands(text, i, "day", 1..31, 1..9)
            \o (IF i <= Len(text) /\ text[i] = " " /\ OneDigit(text, i + 1) \in 1..9
                THEN << [len |-> 2, upd |-> "day" :> OneDigit(text, i + 1)] >>
                ELSE <<>>)
      [] tok = "%H" -> NumCands(text, i, "hour", 0..23, 0..9)
      [] tok = "%M" -> NumCands(text, i, "minute", 0..59, 0..9)
      [] tok = "%S" -> NumCands(text, i, "second", 0..61, 0..9)
      [] tok = "%b" -> NameCands(text, i, "month", MonthNames)
      [] tok = "%a" -> NameCands(text, i, "skip", DayNames)
      [] tok = "%z" -> ZoneCands(text, i)
      [] tok = " " -> SpaceCands(text, i)
      [] OTHER ->
            IF i <= Len(text) /\ LowerChar(text[i]) = LowerChar(tok)
            THEN << [len |-> 1, upd |-> "skip" :> 0] >>
            ELSE <<>>

\* the match of a format against the whole of text, with backtracking over
\* the alternatives as a regular expression does
RECURSIVE ParseFrom(_, _, _, _), TryCands(_, _, _, _, _)
ParseFrom(text, i, fmt, acc) ==
    IF fmt = <<>> THEN (IF i = Len(text) + 1 THEN acc ELSE NoDate)
    ELSE TryCands(text, i, fmt, acc, Candidates(Head(fmt), text, i))

TryCands(text, i, fmt, acc, cands) ==
    IF cands = <<>> THEN NoDate
    ELSE LET c == Head(cands)
             r == ParseFrom(text, i + c.len, Tail(fmt),
                            [f \in DOMAIN acc |->
                                IF f \in DOMAIN c.upd THEN c.upd[f] ELSE acc[f]])
         IN  IF r.ok THEN r ELSE TryCands(text, i, fmt, acc, Tail(cands))

\* datetime.strptime(text, fmt); NoDate stands for ValueError
strptime(text, fmt) ==
    LET start == DateTime(1900, 1, 1, 0, 0, 0) @@ ("skip" :> 0)
        r == ParseFrom(text, 1, fmt, start)
    IN  IF r.ok /\ ValidDateTime(r)
        THEN [DateTime(r.year, r.month, r.day, r.hour, r.minute, r.second)
                 EXCEPT !.aware = r.aware, !.offset = r.offset]
        ELSE NoDate

----------------------------------------------------------------------------
(* NewsCollector *)

\* date_formats of _parse_date_string, one element per directive or
\* character
date_formats ==
    << <<"%Y", "-", "%m", "-", "%d", " ", "%H", ":", "%M", ":", "%S">>,
       <<"%Y", "-", "%m", "-", "%d", " ", "%H", ":", "%M">>,
       <<"%Y", "-", "%m", "-", "%d">>,
       <<"%Y", ".", "%m", ".", "%d", " ", "%H", ":", "%M", ":", "%S">>,
       <<"%Y", ".", "%m", ".", "%d", " ", "%H", ":", "%M">>,
       <<"%Y", ".", "%m", ".", "%d">>,
       <<"%Y", "/", "%m", "/", "%d", " ", "%H", ":", "%M", ":", "%S">>,
       <<"%Y", "/", "%m", "/", "%d">>,
       <<"%Y", "-", "%m", "-", "%d", "T", "%H", ":", "%M", ":", "%S", "%z">>,
       <<"%Y", "-", "%m", "-", "%d", "T", "%H", ":", "%M", ":", "%S", "Z">>,
       <<"%Y", "-", "%m", "-", "%d", "T", "%H", ":", "%M", ":", "%S">>,
       <<"%d", " ", "%b", " ", "%Y", " ", "%H", ":", "%M", ":", "%S">>,
       <<"%a", ",", " ", "%d", " ", "%b", " ", "%Y", " ", "%H", ":", "%M", ":", "%S">> >>

\* the first format of formats that parses text
RECURSIVE FirstParse(_, _)
FirstParse(text, formats) ==
    IF formats = <<>> THEN NoDate
    ELSE LET r == strptime(text, Head(formats))
         IN  IF r.ok THEN r ELSE FirstParse(text, Tail(formats))

\* re.sub(r"[+-]\d{4}$", "", s)
StripOffset(s) ==
    LET n == Len(s)
    IN  IF n >= 5 /\ s[n - 4] \in {"+", "-"}
           /\ \A k \in (n - 3)..n : IsDigit(s[k])
        THEN Take(s, n - 5) ELSE s

\* re.sub(r"\s+\w{3,4}$", "", s)
StripZoneName(s) ==
    LET n == Len(s)
        ends(k) == /\ n > k
                   /\ \A j \in (n - k + 1)..n : IsWordChar(s[j])
                   /\ IsSpace(s[n - k])
    IN  IF ends(3) THEN RStrip(Take(s, n - 3))
        ELSE IF ends(4) THEN RStrip(Take(s, n - 4))
        ELSE s

\* data.split()
RECURSIVE Words(_)
Words(s) ==
    LET t == LStrip(s)
        n == IF \E k \in 1..Len(t) : IsSpace(t[k])
             THEN (CHOOSE k \in 1..Len(t) :
                      IsSpace(t[k]) /\ \A j \in 1..(k - 1) : ~IsSpace(t[j])) - 1
             ELSE Len(t)
    IN  IF t = <<>> THEN <<>> ELSE <<Take(t, n)>> \o Words(Drop(t, n))

\* s.find(c), counted from 1; 0 when c does not occur
Find(s, c) ==
    IF \E k \in 1..Len(s) : s[k] = c
    THEN CHOOSE k \in 1..Len(s) : s[k] = c /\ \A j \in 1..(k - 1) : s[j] # c
    ELSE 0

\* s without one trailing comma
DropComma(s) == IF s # <<>> /\ s[Len(s)] = "," THEN Take(s, Len(s) - 1) ELSE s

\* int(s) succeeds: decimal digits with an optional sign (underscores and
\* surrounding blanks are left out)
IsSignedInt(s) == s # <<>> /\ IsInt(IF s[1] \in {"+", "-"} THEN Tail(s) ELSE s)

SignedIntOf(s) ==
    IF s[1] = "-" THEN 0 - IntOf(Tail(s))
    ELSE IF s[1] = "+" THEN IntOf(Tail(s)) ELSE IntOf(s)

\* _monthnames of email._parseaddr
FullMonthNames ==
    << <<"j", "a", "n", "u", "a", "r", "y">>, <<"f", "e", "b", "r", "u", "a", "r", "y">>,
       <<"m", "a", "r", "c", "h">>, <<"a", "p", "r", "i", "l">>,
       <<"m", "a", "y">>, <<"j", "u", "n", "e">>,
       <<"j", "u", "l", "y">>, <<"a", "u", "g", "u", "s", "t">>,
       <<"s", "e", "p", "t", "e", "m", "b", "e", "r">>, <<"o", "c", "t", "o", "b", "e", "r">>,
       <<"n", "o", "v", "e", "m", "b", "e", "r">>, <<"d", "e", "c", "e", "m", "b", "e", "r">> >>

AllMonthNames == MonthNames \o FullMonthNames

\* _timezones of email._parseaddr
ZoneNames ==
    << [name |-> <<"U", "T">>, offset |-> 0], [name |-> <<"U", "T", "C">>, offset |-> 0],
       [name |-> <<"G", "M", "T">>, offset |-> 0], [name |-> <<"Z">>, offset |-> 0],
       [name |-> <<"A", "S", "T">>, offset |-> -400],
       [name |-> <<"A", "D", "T">>, offset |-> -300],
       [name |-> <<"E", "S", "T">>, offset |-> -500],
       [name |-> <<"E", "D", "T">>, offset |-> -400],
       [name |-> <<"C", "S", "T">>, offset |-> -600],
       [name |-> <<"C", "D", "T">>, offset |-> -500],
       [name |-> <<"M", "S", "T">>, offset |-> -700],
       [name |-> <<"M", "D", "T">>, offset |-> -600],
       [name |-> <<"P", "S", "T">>, offset |-> -800],
       [name |-> <<"P", "D", "T">>, offset |-> -700] >>

\* s.upper()
UpperChar(c) ==
    IF \E i \in 1..26 : Lowers[i] = c
    THEN Upper[CHOOSE i \in 1..26 : Lowers[i] = c]
    ELSE c

UpperText(s) == [i \in 1..Len(s) |-> UpperChar(s[i])]

\* the zone of _parsedate_tz: known tells whether an offset was found, hhmm
\* is the offset as the digits say it
ZoneOf(tz0) ==
    LET tz == UpperText(tz0)
    IN  IF \E k \in 1..Len(ZoneNames) : ZoneNames[k].name = tz
        THEN [known |-> TRUE,
              hhmm |-> ZoneNames[CHOOSE k \in 1..Len(ZoneNames) :
                                    ZoneNames[k].name = tz].offset]
        ELSE IF IsSignedInt(tz) /\ ~(SignedIntOf(tz) = 0 /\ tz[1] = "-")
        THEN [known |-> TRUE, hhmm |-> SignedIntOf(tz)]
        ELSE [known |-> FALSE, hhmm |-> 0]

\* the offset in minutes of a zone written as hours * 100 + minutes
ZoneMinutes(hhmm) ==
    IF hhmm < 0 THEN 0 - ((((0 - hhmm) \div 100) * 60) + ((0 - hhmm) % 100))
    ELSE ((hhmm \div 100) * 60) + (hhmm % 100)

\* _parsedate_tz drops a leading day name, or what precedes a comma in the
\* first word
DropDayName(data) ==
    IF data = <<>> THEN <<>>
    ELSE IF data[1][Len(data[1])] = ","
            \/ \E k \in 1..Len(DayNames) : DayNames[k] = Lower(data[1])
    THEN Tail(data)
    ELSE <<SplitOn(data[1], ",")[Len(SplitOn(data[1], ","))]>> \o Tail(data)

\* an RFC 850 date has day, month and year in one word, joined by hyphens
Rfc850(data) ==
    IF Len(data) = 3 /\ Len(SplitOn(data[1], "-")) = 3
    THEN SplitOn(data[1], "-") \o Tail(data)
    ELSE data

\* a zone written right after the time is split off; a missing zone becomes
\* an empty word
SplitZone(data) ==
    LET s == data[4]
        i == IF Find(s, "+") # 0 THEN Find(s, "+") ELSE Find(s, "-")
    IN  IF Len(data) # 4 THEN data
        ELSE IF i > 1 THEN SubSeq(data, 1, 3) \o <<Take(s, i - 1), Drop(s, i - 1)>>
        ELSE data \o << <<>> >>

\* the hour, minute and second words of the time word
TimeWords(tm0) ==
    LET tm == SplitOn(DropComma(tm0), ":")
        dotted == SplitOn(tm[1], ".")
    IN  IF Len(tm) = 2 THEN tm \o << <<"0">> >>
        ELSE IF Len(tm) = 3 THEN tm
        ELSE IF Len(tm) = 1 /\ Len(dotted) = 2 THEN dotted \o << <<"0">> >>
        ELSE IF Len(tm) = 1 /\ Len(dotted) = 3 THEN dotted
        ELSE <<>>

IsMonthName(mm) == \E k \in 1..Len(AllMonthNames) : AllMonthNames[k] = mm

MonthOf(mm) ==
    (((CHOOSE k \in 1..Len(AllMonthNames) : AllMonthNames[k] = mm) - 1) % 12) + 1

\* a year of one or two digits is read as 1969..2068
YearOf(yy) ==
    IF yy >= 100 THEN yy ELSE IF yy > 68 THEN yy + 1900 ELSE yy + 2000

\* datetime(...) of parsedate_to_datetime; NoDate when the constructor raises
ZonedDate(year, month, day, tm, zone) ==
    LET dt == [DateTime(year, month, day, tm[1], tm[2], tm[3])
                  EXCEPT !.aware = zone.known, !.offset = ZoneMinutes(zone.hhmm)]
    IN  IF ValidDateTime(dt) THEN dt ELSE NoDate

\* the tail of _parsedate_tz: the words are read as numbers
FieldsToDate(dd, mm, yy, tm, tz) ==
    IF tm = <<>> THEN NoDate
    ELSE IF ~(IsSignedInt(yy) /\ IsSignedInt(dd) /\ \A k \in 1..3 : IsSignedInt(tm[k]))
    THEN NoDate
    ELSE ZonedDate(YearOf(SignedIntOf(yy)), MonthOf(mm), SignedIntOf(dd),
                   [k \in 1..3 |-> SignedIntOf(tm[k])], ZoneOf(tz))

\* year and zone change places when the year word does not start with a
\* digit
OrderZone(dd, mm, yy, tm, tz) ==
    IF yy = <<>> \/ tm = <<>> THEN NoDate
    ELSE IF ~IsDigit(yy[1]) THEN FieldsToDate(dd, mm, tz, TimeWords(tm), yy)
    ELSE FieldsToDate(dd, mm, yy, TimeWords(tm), tz)

\* year and time change places when the year word holds a colon
OrderTime(dd, mm, yy, tm, tz) ==
    IF Find(yy, ":") > 1 THEN OrderZone(dd, mm, DropComma(tm), yy, tz)
    ELSE OrderZone(dd, mm, DropComma(yy), tm, tz)

\* day and month change places when the second word is no month name
OrderMonth(data) ==
    IF Len(data) < 5 THEN NoDate
    ELSE IF data[1] = <<>> \/ data[2] = <<>> \/ data[3] = <<>> THEN NoDate
    ELSE IF IsMonthName(Lower(data[2]))
    THEN OrderTime(DropComma(data[1]), Lower(data[2]), data[3], data[4], data[5])
    ELSE IF IsMonthName(Lower(data[1]))
    THEN OrderTime(DropComma(Lower(data[2])), Lower(data[1]), data[3], data[4], data[5])
    ELSE NoDate

\* email.utils.parsedate_to_datetime; NoDate when it raises
parsedate_to_datetime(text) ==
    OrderMonth(SplitZone(Rfc850(DropDayName(Words(text)))))

_parse_date_string(date_str) ==
    LET stripped == Strip(date_str)
        first == FirstParse(stripped, date_formats)
        clean_date == Strip(StripZoneName(StripOffset(stripped)))
        second == FirstParse(clean_date, date_formats)
    IN  IF date_str = <<>> THEN NoDate
        ELSE IF first.ok THEN first
        ELSE IF second.ok THEN second
        ELSE parsedate_to_datetime(stripped)

\* datetime(*t[:6]) for a time tuple; NoDate when the constructor raises
FromTuple(t) ==
    LET dt == DateTime(t[1], t[2], t[3], t[4], t[5], t[6])
    IN  IF ValidDateTime(dt) THEN dt ELSE NoDate

\* hasattr(entry, name) and entry[name]
HasField(entry, name) == name \in DOMAIN entry /\ entry[name] # <<>>

\* the date fields of an entry in the order _parse_date tries them
DateFields == <<"published", "published_parsed", "updated", "updated_parsed",
                "dc_date">>

\* the fields that hold a time tuple instead of a text
TupleFields == {"published_parsed", "updated_parsed"}

\* what one step of _parse_date gets out of a field: NoDate when the field is
\* missing or empty, when the text does not parse, or when datetime() raises
FieldDate(entry, name) ==
    IF ~HasField(entry, name) THEN NoDate
    ELSE IF name \in TupleFields THEN FromTuple(entry[name])
    ELSE _parse_date_string(entry[name])

\* the first date of a sequence that is usable, or the fallback
FirstUsable(dates, fallback) ==
    IF \E i \in DOMAIN dates : dates[i].ok
    THEN dates[CHOOSE i \in DOMAIN dates :
                   dates[i].ok /\ \A j \in 1..(i - 1) : ~dates[j].ok]
    ELSE fallback

\* now_local is what datetime.now() returns on the host
_parse_date(entry, now_local) ==
    FirstUsable([i \in DOMAIN DateFields |-> FieldDate(entry, DateFields[i])],
                now_local)

FeedCap == 10

\* variant: an entry dated exactly at the cutoff is dropped as well
TooOld_inclusive(pub_date, cutoff_date) == ~Before(cutoff_date, pub_date)

\* pub_date < cutoff_date
TooOld(pub_date, cutoff_date) == Before(pub_date, cutoff_date)

\* the item collect_news builds from an entry; entry.content_data is what
\* _get_content returns for it
NewsItem(entry, pub_date, feed_info) ==
    [title |-> Get(entry, "title", <<>>),
     link |-> Get(entry, "link", <<>>),
     content |-> entry.content_data.content,
     image_url |-> entry.content_data.image_url,
     all_images |-> entry.content_data.all_images,
     date |-> FmtDate(pub_date),
     source |-> feed_info.name]

\* one pass of the inner loop of collect_news: what the entry adds to the list
EntryItems(entry, pub_date, cutoff_date, feed_info) ==
    IF TooOld(pub_date, cutoff_date) THEN <<>>
    ELSE <<NewsItem(entry, pub_date, feed_info)>>

\* the items of one feed: the inner loop of collect_news
RECURSIVE FeedItems(_, _, _, _)
FeedItems(feed_info, feed_entries, cutoff_date, now_local) ==
    IF feed_entries = <<>> THEN <<>>
    ELSE EntryItems(Head(feed_entries),
                    StripTz(_parse_date(Head(feed_entries), now_local)),
                    cutoff_date, feed_info)
         \o FeedItems(feed_info, Tail(feed_entries), cutoff_date, now_local)

\* variant: an exception while a feed is processed ends the collection
RECURSIVE collect_news_abort(_, _, _)
collect_news_abort(feeds, days, clock) ==
    IF feeds = <<>> THEN <<>>
    ELSE IF Head(feeds).raises THEN <<>>
    ELSE FeedItems(Head(feeds), Take(Head(feeds).entries, FeedCap),
                   MinusDays(clock.utc, days), clock.local)
         \o collect_news_abort(Tail(feeds), days, clock)

\* collect_news(days) over the configured feeds; a feed whose fetch raises
\* contributes nothing
RECURSIVE collect_news(_, _, _)
collect_news(feeds, days, clock) ==
    IF feeds = <<>> THEN <<>>
    ELSE LET feed_info == Head(feeds)
             cutoff_date == MinusDays(clock.utc, days)
             items == IF feed_info.raises THEN <<>>
                      ELSE FeedItems(feed_info, Take(feed_info.entries, FeedCap),
                                     cutoff_date, clock.local)
         IN  items \o collect_news(Tail(feeds), days, clock)

----------------------------------------------------------------------------
(* NewsCollector: content extraction *)

\* markup is modelled as BeautifulSoup sees it: a sequence of nodes, each
\* the name of the tag that encloses it and its text
Node(tag, text) == [tag |-> tag, text |-> text]

\* the tags _strip_html decomposes
StrippedTags == {"script", "style", "nav", "footer", "aside", "figure", "img"}

\* soup.get_text(separator="\n", strip=True)
get_text(nodes) ==
    LET kept == SelectSeq(nodes, LAMBDA n : Strip(n.text) # <<>>)
    IN  Join([i \in 1..Len(kept) |-> Strip(kept[i].text)], <<NL>>)

\* each character with the two characters before it
WithContext(text) ==
    [i \in 1..Len(text) |->
        <<text[i], IF i > 1 THEN text[i - 1] ELSE "", IF i > 2 THEN text[i - 2] ELSE "">>]

FirstOfEach(triples) == [i \in 1..Len(triples) |-> triples[i][1]]

\* re.sub(r"\n{3,}", "\n\n", text)
CollapseNewlines(text) ==
    FirstOfEach(SelectSeq(WithContext(text),
                          LAMBDA t : ~(t[1] = NL /\ t[2] = NL /\ t[3] = NL)))

\* re.sub(r" {2,}", " ", text)
CollapseBlanks(text) ==
    FirstOfEach(SelectSeq(WithContext(text), LAMBDA t : ~(t[1] = SP /\ t[2] = SP)))

\* _strip_html with BeautifulSoup installed
_strip_html(html_content) ==
    IF html_content = <<>> THEN <<>>
    ELSE Strip(CollapseBlanks(CollapseNewlines(
            get_text(SelectSeq(html_content, LAMBDA n : n.tag \notin StrippedTags)))))

\* the feed's own text of an entry: lines 944-954
rss_content(entry) ==
    IF HasField(entry, "content") /\ Get(entry.content[1], "value", <<>>) # <<>>
    THEN entry.content[1].value
    ELSE IF HasField(entry, "summary") THEN entry.summary
    ELSE IF HasField(entry, "description") THEN entry.description
    ELSE <<>>

MinLineLen == 3

\* re.search(a + ".*" + b, line)
Gap(line, a, b) ==
    \E i \in 1..Len(line) :
        /\ OccursAt(line, a, i)
        /\ \E j \in (i + Len(a))..Len(line) : OccursAt(line, b, j)

\* the skip_patterns of _clean_article_content, matched with re.IGNORECASE
\* against a stripped line
SkipLine(line) ==
    LET s == Lower(line)
        n == Len(s)
    IN  \/ s = <<"JO_H", "A_", "YO">>
        \/ IsInt(s)
        \/ s = <<"GWA_N", "RYEO_N", "GI", "SA">>
        \/ \E k \in 4..n : /\ SubSeq(s, 1, 4) = <<"DA", "REU_N", "GI", "SA">>
                            /\ OccursAt(s, <<"BO", "GI">>, k + 1)
                            /\ \A j \in 5..k : IsSpace(s[j])
        \/ s = <<"KI", "WO", "DEU">>
        \/ (n >= 2 /\ s[1] = "#" /\ IsWordChar(s[2]))
        \/ StartsWith(s, <<"JEO", "JA_G", "GWO_N", "JA">>)
        \/ IsSubstr(<<"MU", "DA_N", "JEO_N", "JAE">>, s)
        \/ Gap(s, <<"JAE", "BAE", "PO">>, <<"GEU_M", "JI">>)
        \/ s = <<"GI", "JA">>
        \/ Gap(s, <<"@">>, <<".", "c", "o", "m">>)
        \/ StartsWith(s, <<"n", "e", "w", "s", "@">>)
        \/ (n >= 3 /\ EndsWith(s, <<"GI", "JA">>) /\ \A j \in 1..(n - 2) : ~IsSpace(s[j]))
        \/ StartsWith(s, <<"TRI_RIGHT">>)
        \/ StartsWith(s, <<"HAND_RIGHT">>)
        \/ StartsWith(s, <<"[", "GWA_N", "RYEO_N", "GI", "SA", "]">>)
        \/ (n >= 4 /\ s[1] = "[" /\ EndsWith(s, <<"GI", "JA", "]">>))
        \/ StartsWith(s, <<"SA", "JI_N", "=">>)
        \/ StartsWith(s, <<"(", "SA", "JI_N", "=">>)
        \/ StartsWith(s, <<"CHU_L", "CHEO", "=">>)
        \/ StartsWith(s, <<"(", "CHU_L", "CHEO", "=">>)
        \/ StartsWith(s, <<"C_CIRCLED">>)
        \/ StartsWith(s, <<"COPYRIGHT_SIGN">>)
        \/ StartsWith(s, <<"c", "o", "p", "y", "r", "i", "g", "h", "t", "s">>)
        \/ Gap(s, <<"a", "i", "HA_G", "SEU_B">>, <<"GEU_M", "JI">>)
        \/ IsSubstr(<<"NYU", "SEU", "JE", "GO_NG">>, s)

_clean_article_content(content) ==
    IF content = <<>> THEN <<>>
    ELSE LET lines == SplitOn(content, NL)
             stripped == [i \in 1..Len(lines) |-> Strip(lines[i])]
         IN  Join(SelectSeq(stripped,
                            LAMBDA line : Len(line) >= MinLineLen /\ ~SkipLine(line)),
                  <<NL, NL>>)


\* exclude_patterns of _is_valid_image_url
exclude_patterns ==
    << <<"p", "i", "x", "e", "l">>,
       <<"t", "r", "a", "c", "k", "i", "n", "g">>,
       <<"a", "n", "a", "l", "y", "t", "i", "c", "s">>,
       <<"b", "e", "a", "c", "o", "n">>,
       <<"a", "d", "v", "e", "r", "t", "i", "s", "e", "m", "e", "n", "t">>,
       <<"b", "a", "n", "n", "e", "r">>,
       <<"a", "d", ".">>,
       <<"a", "d", "s", ".">>,
       <<"1", "x", "1">>,
       <<"s", "p", "a", "c", "e", "r">>,
       <<"b", "l", "a", "n", "k">>,
       <<"t", "r", "a", "n", "s", "p", "a", "r", "e", "n", "t">> >>

valid_extensions ==
    << <<".", "j", "p", "g">>,
       <<".", "j", "p", "e", "g">>,
       <<".", "p", "n", "g">>,
       <<".", "g", "i", "f">>,
       <<".", "w", "e", "b", "p">> >>

image_services ==
    << <<"w", "p", "-", "c", "o", "n", "t", "e", "n", "t", "/", "u", "p", "l", "o", "a", "d", "s">>,
       <<"i", "m", "a", "g", "e", "s">>,
       <<"i", "m", "g">>,
       <<"p", "h", "o", "t", "o">>,
       <<"m", "e", "d", "i", "a">> >>

_is_valid_image_url(url) ==
    /\ url # <<>>
    /\ ~AnyIn(exclude_patterns, Lower(url))
    /\ AnyIn(valid_extensions, Lower(url)) \/ AnyIn(image_services, Lower(url))

HttpPrefix == <<"h", "t", "t", "p", ":", "/", "/">>
HttpsPrefix == <<"h", "t", "t", "p", "s", ":", "/", "/">>

\* the position of the n-th occurrence of c in s, 0 when there is none
RECURSIVE NthIndex(_, _, _)
NthIndex(s, c, n) ==
    LET i == Find(s, c)
    IN  IF i = 0 THEN 0
        ELSE IF n = 1 THEN i
        ELSE LET r == NthIndex(Drop(s, i), c, n - 1)
             IN  IF r = 0 THEN 0 ELSE i + r

\* the last position of c in s, 0 when there is none
LastIndex(s, c) ==
    IF \E k \in 1..Len(s) : s[k] = c
    THEN CHOOSE k \in 1..Len(s) : s[k] = c /\ \A j \in (k + 1)..Len(s) : s[j] # c
    ELSE 0

IsAbsolute(url) == StartsWith(url, HttpPrefix) \/ StartsWith(url, HttpsPrefix)

\* urljoin raises ValueError for a bracket in the host that is not closed
UrlJoinRaises(url) ==
    IsAbsolute(url) /\ IsSubstr(<<"/", "/", "[">>, url) /\ Find(url, "]") = 0

\* urllib.parse.urljoin(base_url, url) for an absolute url, a url that
\* starts with one slash, and a url relative to the directory of the page
\* (no dot segments, query or fragment)
urljoin(base_url, url) ==
    IF IsAbsolute(url) THEN url
    ELSE IF url[1] = "/"
    THEN (IF NthIndex(base_url, "/", 3) = 0 THEN base_url
          ELSE Take(base_url, NthIndex(base_url, "/", 3) - 1)) \o url
    ELSE Take(base_url, LastIndex(base_url, "/")) \o url

\* the selectors of _extract_all_images, by position
ImageSelectors == 1..6

\* img.get("src") or img.get("data-src") or img.get("data-original")
ImgUrl(img) ==
    IF img.src # <<>> THEN img.src
    ELSE IF img.data_src # <<>> THEN img.data_src
    ELSE img.data_original

\* the urls the second loop of _extract_all_images visits, in order
RECURSIVE ArticleImageUrls(_, _)
ArticleImageUrls(imgs, selector) ==
    IF selector \notin ImageSelectors THEN <<>>
    ELSE LET found == SelectSeq(imgs, LAMBDA img : selector \in img.matches
                                                  /\ ImgUrl(img) # <<>>)
         IN  [i \in 1..Len(found) |-> ImgUrl(found[i])]
             \o ArticleImageUrls(imgs, selector + 1)

InSeq(x, seq) == \E k \in 1..Len(seq) : seq[k] = x

\* the second loop of _extract_all_images
RECURSIVE AddImages(_, _, _)
AddImages(images, base_url, urls) ==
    IF urls = <<>> THEN images
    ELSE AddImages(
            IF ~InSeq(urljoin(base_url, Head(urls)), images)
               /\ _is_valid_image_url(urljoin(base_url, Head(urls)))
            THEN Append(images, urljoin(base_url, Head(urls)))
            ELSE images,
            base_url, Tail(urls))

MaxImages == 10

\* the Open Graph image: lines 1189-1196
OgImages(soup, base_url) ==
    IF soup.og # <<>> /\ _is_valid_image_url(soup.og)
    THEN <<urljoin(base_url, soup.og)>>
    ELSE <<>>

\* a url of the page makes urljoin raise inside _extract_all_images
ImagesRaise(soup) ==
    \/ (_is_valid_image_url(soup.og) /\ UrlJoinRaises(soup.og))
    \/ \E k \in 1..Len(soup.imgs) :
          soup.imgs[k].matches # {} /\ UrlJoinRaises(ImgUrl(soup.imgs[k]))

_extract_all_images(soup, base_url) ==
    Take(AddImages(OgImages(soup, base_url), base_url,
                   ArticleImageUrls(soup.imgs, 1)),
         MaxImages)

ScrapeMinLen == 200

ContentCap == 8000

\* what _scrape_article returns when nothing was scraped; raised tells
\* whether an exception left the function
NoScrape == [raised |-> FALSE, content |-> <<>>, image_url |-> <<>>, all_images |-> <<>>]

\* the loop over the selectors, lines 1053-1064: bodies holds, in selector
\* order, the text of the element each matching selector finds, taken after
\* the unwanted tags are removed; the result is the text the loop ends with
RECURSIVE SelectContent(_, _)
SelectContent(bodies, content) ==
    IF bodies = <<>> THEN content
    ELSE IF Len(Head(bodies).text) > ScrapeMinLen THEN Head(bodies).text
    ELSE SelectContent(Tail(bodies), Head(bodies).text)

\* an exception is raised inside the try block of _scrape_article
ScrapeFails(page) ==
    page.fetch # "ok" \/ page.parse # "ok" \/ ImagesRaise(page.soup)

\* lines 1028-1069 for a page that was fetched and parsed
Scraped(all_images, content) ==
    [raised |-> FALSE,
     content |-> Take(_clean_article_content(content), ContentCap),
     image_url |-> IF all_images = <<>> THEN <<>> ELSE all_images[1],
     all_images |-> all_images]

\* variant: the exceptions of the fetch and of the parse are not caught
_scrape_article_uncaught(url, page) ==
    IF ScrapeFails(page) THEN [NoScrape EXCEPT !.raised = TRUE]
    ELSE Scraped(_extract_all_images(page.soup, url),
                 SelectContent(page.soup.bodies, <<>>))

\* page is what the site answers to the request for url
_scrape_article(url, page) ==
    IF ScrapeFails(page) THEN NoScrape
    ELSE Scraped(_extract_all_images(page.soup, url),
                 SelectContent(page.soup.bodies, <<>>))

\* lines 956-975, given the baseline text and what was scraped
ChooseContent(baseline, link, scraped) ==
    IF link = <<>>
    THEN [NoScrape EXCEPT !.content = baseline]
    ELSE IF scraped.raised THEN scraped
    ELSE [scraped EXCEPT
            !.content = IF @ # <<>> /\ Len(@) > Len(baseline) THEN @ ELSE baseline]

_get_content(entry, page) ==
    ChooseContent(_strip_html(rss_content(entry)), Get(entry, "link", <<>>),
                  _scrape_article(Get(entry, "link", <<>>), page))

----------------------------------------------------------------------------
(* NewsAnalyzer: the parser of the classifier's reply *)

QUOTE == "\""
BSLASH == "\\"

\* "BACKTICK" stands for the grave accent
Fence == <<"BACKTICK", "BACKTICK", "BACKTICK">>
JsonFence == Fence \o <<"j", "s", "o", "n">>

TrueLiteral == <<"t", "r", "u", "e">>
FalseLiteral == <<"f", "a", "l", "s", "e">>
NullLiteral == <<"n", "u", "l", "l">>

\* Python's None: what the parser returns for a failure, and what json.loads
\* returns for the literal null
None == [none |-> TRUE]

\* The values json.loads returns are [str |-> text], [bool |-> b],
\* [num |-> n], [arr |-> sequence of values], [obj |-> function from key to
\* value] and None.  A step of the decoder ends with JsonError or with the
\* value it read and the position behind it.
JsonError == [ok |-> FALSE]

ReadUpTo(value, next) == [ok |-> TRUE, value |-> value, next |-> next]

\* the first position from i on that holds no blank, Len(t) + 1 without one
SkipWs(t, i) ==
    IF \E k \in i..Len(t) : ~IsSpace(t[k])
    THEN CHOOSE k \in i..Len(t) : ~IsSpace(t[k]) /\ \A j \in i..(k - 1) : IsSpace(t[j])
    ELSE Len(t) + 1

\* the escapes whose character is in the alphabet of the model
EscapeChars == {QUOTE, BSLASH, "/", "n"}

Unescape(e) == IF e = "n" THEN NL ELSE e

\* the characters of a string from position i on, up to its closing quote;
\* json.loads is strict: a newline inside a string is an error
RECURSIVE ScanString(_, _, _)
ScanString(t, i, acc) ==
    IF i > Len(t) THEN JsonError
    ELSE IF t[i] = QUOTE THEN ReadUpTo(acc, i + 1)
    ELSE IF t[i] = NL THEN JsonError
    ELSE IF t[i] = BSLASH
    THEN IF i < Len(t) /\ t[i + 1] \in EscapeChars
         THEN ScanString(t, i + 2, Append(acc, Unescape(t[i + 1])))
         ELSE JsonError
    ELSE ScanString(t, i + 1, Append(acc, t[i]))

StrValue(r) == IF r.ok THEN ReadUpTo([str |-> r.value], r.next) ELSE JsonError

\* the end of the run of digits that starts at i
DigitsEnd(t, i) ==
    IF \E k \in i..Len(t) : ~IsDigit(t[k])
    THEN (CHOOSE k \in i..Len(t) : ~IsDigit(t[k]) /\ \A j \in i..(k - 1) : IsDigit(t[j])) - 1
    ELSE Len(t)

\* a number without sign, fraction or exponent
NumValue(t, i) ==
    IF t[i] = "0" THEN ReadUpTo([num |-> 0], i + 1)
    ELSE ReadUpTo([num |-> IntOf(SubSeq(t, i, DigitsEnd(t, i)))], DigitsEnd(t, i) + 1)

RECURSIVE ParseValue(_, _)
RECURSIVE ParseMembers(_, _, _)
RECURSIVE ParseElements(_, _, _)

\* what follows a member of an object that ends before position after
AfterMember(t, after, members) ==
    IF after > Len(t) THEN JsonError
    ELSE IF t[after] = "}" THEN ReadUpTo([obj |-> members], after + 1)
    ELSE IF t[after] = "," THEN ParseMembers(t, SkipWs(t, after + 1), members)
    ELSE JsonError

\* the value of the member key; a key that occurs again replaces the first
MemberValue(t, key, v, members) ==
    IF ~v.ok THEN JsonError
    ELSE AfterMember(t, SkipWs(t, v.next), (key :> v.value) @@ members)

MemberColon(t, key, colon, members) ==
    IF ~key.ok \/ colon > Len(t) THEN JsonError
    ELSE IF t[colon] # ":" THEN JsonError
    ELSE MemberValue(t, key.value, ParseValue(t, SkipWs(t, colon + 1)), members)

MemberKey(t, key, members) ==
    MemberColon(t, key, IF key.ok THEN SkipWs(t, key.next) ELSE 0, members)

\* the members of an object from the key at position i on
ParseMembers(t, i, members) ==
    IF i > Len(t) THEN JsonError
    ELSE IF t[i] # QUOTE THEN JsonError
    ELSE MemberKey(t, ScanString(t, i + 1, <<>>), members)

AfterElement(t, after, elements) ==
    IF after > Len(t) THEN JsonError
    ELSE IF t[after] = "]" THEN ReadUpTo([arr |-> elements], after + 1)
    ELSE IF t[after] = "," THEN ParseElements(t, SkipWs(t, after + 1), elements)
    ELSE JsonError

ElementValue(t, v, elements) ==
    IF ~v.ok THEN JsonError
    ELSE AfterElement(t, SkipWs(t, v.next), Append(elements, v.value))

\* the elements of an array from the value at position i on
ParseElements(t, i, elements) == ElementValue(t, ParseValue(t, i), elements)

\* an object or an array whose first member or element is at position j
Container(t, j, close, empty) ==
    IF j > Len(t) THEN JsonError
    ELSE IF t[j] = close THEN ReadUpTo(empty, j + 1)
    ELSE IF close = "}" THEN ParseMembers(t, j, <<>>)
    ELSE ParseElements(t, j, <<>>)

\* the value that starts at position i
ParseValue(t, i) ==
    IF i > Len(t) THEN JsonError
    ELSE IF t[i] = QUOTE THEN StrValue(ScanString(t, i + 1, <<>>))
    ELSE IF t[i] = "{" THEN Container(t, SkipWs(t, i + 1), "}", [obj |-> <<>>])
    ELSE IF t[i] = "[" THEN Container(t, SkipWs(t, i + 1), "]", [arr |-> <<>>])
    ELSE IF OccursAt(t, TrueLiteral, i) THEN ReadUpTo([bool |-> TRUE], i + 4)
    ELSE IF OccursAt(t, FalseLiteral, i) THEN ReadUpTo([bool |-> FALSE], i + 5)
    ELSE IF OccursAt(t, NullLiteral, i) THEN ReadUpTo(None, i + 4)
    ELSE IF IsDigit(t[i]) THEN NumValue(t, i)
    ELSE JsonError

\* only blanks may follow the value
WholeText(s, r) ==
    IF ~r.ok THEN JsonError
    ELSE IF SkipWs(s, r.next) <= Len(s) THEN JsonError
    ELSE [ok |-> TRUE, value |-> r.value]

\* json.loads(s); JsonError stands for the exception
json_loads(s) == WholeText(s, ParseValue(s, SkipWs(s, 1)))

\* the first position from start on where p occurs in s, 0 without one
FindSeq(s, p, start) ==
    IF \E k \in start..Len(s) : OccursAt(s, p, k)
    THEN CHOOSE k \in start..Len(s) :
            OccursAt(s, p, k) /\ \A j \in start..(k - 1) : ~OccursAt(s, p, j)
    ELSE 0

NoMatch == [found |-> FALSE]

\* the text between the opener at position i and the next fence
FencedGroup(text, opener, i, j) ==
    IF j = 0 THEN NoMatch
    ELSE [found |-> TRUE, group |-> Strip(SubSeq(text, i + Len(opener), j - 1))]

FenceAfter(text, opener, i) ==
    FencedGroup(text, opener, i,
                IF i = 0 THEN 0 ELSE FindSeq(text, Fence, i + Len(opener)))

\* re.search(opener + r"\s*([\s\S]*?)\s*```", text): the group is the text
\* between the first opener and the next fence without the blanks around it
FenceMatch(text, opener) == FenceAfter(text, opener, FindSeq(text, opener, 1))

BraceGroup(text, a, b) ==
    IF a > 0 /\ b > a THEN [found |-> TRUE, group |-> SubSeq(text, a, b)] ELSE NoMatch

\* re.search(r"\{[\s\S]*\}", text): from the first "{" to the last "}"
BraceMatch(text) == BraceGroup(text, Find(text, "{"), LastIndex(text, "}"))

LoadsGroup(m) == IF m.found THEN json_loads(m.group) ELSE JsonError

\* json_str.replace("\n", "\\n")
replace_newlines(s) == Join(SplitOn(s, NL), <<BSLASH, "n">>)

LoadsEscaped(m) ==
    IF m.found THEN json_loads(replace_newlines(m.group)) ELSE JsonError

K_is_ai_related == <<"i", "s", "_", "a", "i", "_", "r", "e", "l", "a", "t", "e", "d">>
K_rejection_reason == <<"r", "e", "j", "e", "c", "t", "i", "o", "n", "_", "r", "e", "a", "s", "o", "n">>
K_summary == <<"s", "u", "m", "m", "a", "r", "y">>
K_key_sentences == <<"k", "e", "y", "_", "s", "e", "n", "t", "e", "n", "c", "e", "s">>
K_technologies == <<"t", "e", "c", "h", "n", "o", "l", "o", "g", "i", "e", "s">>
K_organization == <<"o", "r", "g", "a", "n", "i", "z", "a", "t", "i", "o", "n">>
K_importance == <<"i", "m", "p", "o", "r", "t", "a", "n", "c", "e">>

\* the position behind "key"\s*:\s* when that matches at position i, else 0
AfterKey(t, key, i) ==
    IF ~OccursAt(t, <<QUOTE>> \o key \o <<QUOTE>>, i) THEN 0
    ELSE IF SkipWs(t, i + Len(key) + 2) > Len(t) THEN 0
    ELSE IF t[SkipWs(t, i + Len(key) + 2)] # ":" THEN 0
    ELSE SkipWs(t, SkipWs(t, i + Len(key) + 2) + 1)

BoolAt(t, v) == v > 0 /\ (OccursAt(t, TrueLiteral, v) \/ OccursAt(t, FalseLiteral, v))

\* re.search(r'"key"\s*:\s*(true|false)', text, re.IGNORECASE); t is the
\* text in lower case
BoolField(t, key) ==
    IF \E i \in 1..Len(t) : BoolAt(t, AfterKey(t, key, i))
    THEN [found |-> TRUE,
          value |-> OccursAt(t, TrueLiteral,
                             AfterKey(t, key,
                                      CHOOSE i \in 1..Len(t) :
                                          /\ BoolAt(t, AfterKey(t, key, i))
                                          /\ \A j \in 1..(i - 1) :
                                                ~BoolAt(t, AfterKey(t, key, j))))]
    ELSE NoMatch

\* a quote at position v and another one behind it
QuotedAt(t, v) ==
    /\ v > 0
    /\ v <= Len(t)
    /\ t[v] = QUOTE
    /\ \E k \in (v + 1)..Len(t) : t[k] = QUOTE

\* the characters behind the quote at position v up to the next quote
QuotedGroup(t, v) == Take(Drop(t, v), Find(Drop(t, v), QUOTE) - 1)

\* re.search(r'"key"\s*:\s*"([^"]*)"', text)
StringField(t, key) ==
    IF \E i \in 1..Len(t) : QuotedAt(t, AfterKey(t, key, i))
    THEN [found |-> TRUE,
          value |-> QuotedGroup(t, AfterKey(t, key,
                                   CHOOSE i \in 1..Len(t) :
                                       /\ QuotedAt(t, AfterKey(t, key, i))
                                       /\ \A j \in 1..(i - 1) :
                                             ~QuotedAt(t, AfterKey(t, key, j))))]
    ELSE NoMatch

StringKeys == {K_rejection_reason, K_summary, K_importance, K_organization}

ClassificationKeys == StringKeys \cup {K_is_ai_related, K_key_sentences, K_technologies}

\* the values setdefault gives to the text fields
DefaultText(key) ==
    IF key = K_organization THEN OrgOther
    ELSE IF key = K_importance THEN ImportanceNormal
    ELSE <<>>

OrDefault(m, key) == [str |-> IF m.found THEN m.value ELSE DefaultText(key)]

\* the record of the fifth step, given what the search for is_ai_related found
ExtractedRecord(text, ai) ==
    IF ~ai.found THEN JsonError
    ELSE [ok |-> TRUE,
          value |->
            [obj |-> [key \in ClassificationKeys |->
                        IF key = K_is_ai_related THEN [bool |-> ai.value]
                        ELSE IF key = K_key_sentences THEN [arr |-> <<>>]
                        ELSE IF key = K_technologies THEN [arr |-> <<[str |-> OrgOther]>>]
                        ELSE OrDefault(StringField(text, key), key)]]]

\* the field-by-field extraction: lines 587-627
regex_extract(text) == ExtractedRecord(text, BoolField(Lower(text), K_is_ai_related))

\* the value of a step that did not raise, else what the later steps give
FirstOk(r, otherwise) == IF r.ok THEN r.value ELSE otherwise

\* variant: the field-by-field extraction is tried before the brace region
_parse_json_response_regex_first(text) ==
    IF text = <<>> THEN None
    ELSE FirstOk(json_loads(text),
         FirstOk(LoadsGroup(FenceMatch(text, JsonFence)),
         FirstOk(LoadsGroup(FenceMatch(text, Fence)),
         FirstOk(regex_extract(text),
         FirstOk(LoadsGroup(BraceMatch(text)),
         FirstOk(LoadsEscaped(BraceMatch(text)), None))))))

_parse_json_response(text) ==
    IF text = <<>> THEN None
    ELSE FirstOk(json_loads(text),
         FirstOk(LoadsGroup(FenceMatch(text, JsonFence)),
         FirstOk(LoadsGroup(FenceMatch(text, Fence)),
         FirstOk(LoadsGroup(BraceMatch(text)),
         FirstOk(LoadsEscaped(BraceMatch(text)),
         FirstOk(regex_extract(text), None))))))

----------------------------------------------------------------------------
(* NotionClient, as far as AINewsBot.run observes it *)

DupQueryLen == 50

NotionTitleLen == 100

\* the answer of check_duplicate when the query is answered normally
check_duplicate(pages, title) ==
    \E t \in pages : IsSubstr(Take(title, DupQueryLen), t)

----------------------------------------------------------------------------
(* AINewsBot.run *)

MaxItems == 2

\* reversed(seq)
Reverse(seq) == [i \in 1..Len(seq) |-> seq[Len(seq) + 1 - i]]

\* sorted(S)
SortedAsc(S) == Reverse(SortedDesc(S))

\* what the environment answers while one item is processed
\*   query: the duplicate query is answered ("ok"), answered with an error
\*          object that has no "results" ("error_reply"), the HTTP call
\*          raises ("raise"), or no query is made ("off")
\*   call:  the classifier call raises, or returns None or a parsed value
\*   page:  the page is created ("created"), the reply has no "id"
\*          ("rejected"), the HTTP call raises ("raise"), or no page is
\*          requested ("off")
\*   disk:  the archive write succeeds ("ok"), os.makedirs raises before
\*          anything is written ("raise_mkdir"), or the write of the monthly
\*          index raises after the daily file is written ("raise_index")
Responses ==
    { JNone,
      JObject([is_ai_related |-> TRUE, rejection_reason |-> <<>>, summary |-> <<"S">>,
               key_sentences |-> << <<"k">> >>, technologies |-> << <<"L", "L", "M">> >>,
               organization |-> OrgOther, importance |-> ImportanceNormal]),
      JObject([is_ai_related |-> FALSE, rejection_reason |-> <<"n", "o">>,
               summary |-> <<"S">>, key_sentences |-> <<>>,
               technologies |-> <<>>, organization |-> OrgOther,
               importance |-> ImportanceNormal]),
      JObject([summary |-> <<"S">>]),
      JObject(<<>>),
      JArray(<< <<"x">> >>),
      JString(<<"h", "i">>),
      JNumber(5) }

ClassifierCalls ==
    {[raised |-> TRUE, value |-> JNone]}
    \cup {[raised |-> FALSE, value |-> v] : v \in Responses}

\* the duplicate query is made only when the remote sink is enabled
Queries(no_notion) ==
    IF no_notion THEN {"off"} ELSE {"ok", "error_reply", "raise"}

NoCall == [raised |-> FALSE, value |-> JNone]

\* the classifier is called only when use_ai is set
Calls(use_ai) == IF use_ai THEN ClassifierCalls ELSE {NoCall}

\* a page is created only when the remote sink is enabled
Pages(no_notion) ==
    IF no_notion THEN {"off"} ELSE {"created", "rejected", "raise"}

\* a classifier answer that marks the item as relevant
RelevantCall ==
    [raised |-> FALSE,
     value |-> JObject([is_ai_related |-> TRUE, rejection_reason |-> <<>>,
                        summary |-> <<"S">>, key_sentences |-> << <<"k">> >>,
                        technologies |-> << <<"L", "L", "M">> >>,
                        organization |-> OrgOther, importance |-> ImportanceNormal])]

DiskFailures == {"raise_mkdir", "raise_index"}

\* what the environment may answer during one iteration; after a query that
\* raises nothing else is asked, and a failing disk is combined with a
\* classification that lets the item reach the archive
Envs(use_ai, no_notion) ==
    { [query |-> q, call |-> c, page |-> p, disk |-> "ok"] :
        q \in Queries(no_notion) \ {"raise"}, c \in Calls(use_ai),
        p \in Pages(no_notion) }
    \cup
    { [query |-> q, call |-> NoCall, page |-> "created", disk |-> "ok"] :
        q \in Queries(no_notion) \cap {"raise"} }
    \cup
    { [query |-> q, call |-> IF use_ai THEN RelevantCall ELSE NoCall,
       page |-> p, disk |-> d] :
        q \in Queries(no_notion) \ {"raise"}, p \in Pages(no_notion),
        d \in DiskFailures }

\* the feed items a run may find; the second carries no AI keyword
RunItems ==
    { [title |-> <<"G", "P", "T", " ", "Q", "z">>, link |-> <<"v", "1">>,
       content |-> <<"x", "y">>, source |-> <<"s">>,
       date |-> FmtDate([year |-> 2025, month |-> 1, day |-> 2])],
      [title |-> <<"Q", "z">>, link |-> <<"v", "2">>,
       content |-> <<"x", "y">>, source |-> <<"s">>,
       date |-> FmtDate([year |-> 2025, month |-> 1, day |-> 3])] }

\* what happened to the item of the current iteration; sink_failures in the
\* run record counts the failed sink writes so far, which the program only
\* prints
NoTrace ==
    [query |-> "n/a", classified |-> FALSE, fallback |-> FALSE, analysis |-> JNone,
     relevant |-> "n/a", remote |-> "n/a", archive |-> "n/a"]

\* the file system after save_news wrote the daily file and raised in the
\* write of the monthly index: what the call would have written, with the
\* files other than the daily file as they were
DailyFileOnly(before, saved, md_file) ==
    [path \in (DOMAIN before) \cup {md_file} |->
        IF path = md_file THEN saved[path] ELSE before[path]]

\* save_news when it runs to its end (lines 1720-1731) and when the write of
\* the monthly index raises, which is caught at line 1732; ret is what the
\* call would return and saved the file system it would leave
ArchiveWritten(b, news, disk, ret, saved) ==
    IF disk = "raise_index"
    THEN IF ~ret THEN [b EXCEPT !.trace.archive = "duplicate"]
         ELSE [b EXCEPT
                 !.fs = DailyFileOnly(@, saved, MdFile(NewsDate(news))),
                 !.entries = Appended(@, MdFile(NewsDate(news)), news),
                 !.run.sink_failures = @ + 1,
                 !.trace.archive = "error"]
    ELSE [b EXCEPT
            !.fs = saved,
            !.entries = IF ret THEN Appended(@, MdFile(NewsDate(news)), news) ELSE @,
            !.run.md_saved = IF ret THEN @ + 1 ELSE @,
            !.run.saved_dates =
                IF ret /\ StrptimeOk(news.date)
                THEN @ \cup {FmtInt(Strptime(news.date).month) \o <<"/">>
                             \o FmtInt(Strptime(news.date).day)}
                ELSE @,
            !.trace.archive = IF ret THEN "saved" ELSE "duplicate"]

\* the archive part of the loop body: lines 1719-1733; os.makedirs may raise
\* before anything is written
ArchiveStep(b, news, analysis, disk) ==
    IF disk = "raise_mkdir"
    THEN [b EXCEPT !.run.sink_failures = @ + 1, !.trace.archive = "error"]
    ELSE ArchiveWritten(b, news, disk, SaveNewsResult(b.fs, news),
                        save_news(b.fs, news, analysis.fields))

\* variant: an exception of create_page leaves the loop
NotionStep_uncaught(b, news, analysis, page) ==
    IF b.run.no_notion THEN b
    ELSE IF page = "created"
         THEN [b EXCEPT !.notion = @ \cup {Take(news.title, NotionTitleLen)},
                        !.run.uploaded = @ + 1,
                        !.trace.remote = "created"]
         ELSE IF page = "raise"
         THEN [b EXCEPT !.run.pc = "raised", !.run.error = "transport",
                        !.run.sink_failures = @ + 1, !.trace.remote = "failed"]
         ELSE [b EXCEPT !.run.sink_failures = @ + 1, !.trace.remote = "failed"]

\* the remote part of the loop body: lines 1691-1717
NotionStep(b, news, analysis, page) ==
    IF b.run.no_notion THEN b
    ELSE IF page = "created"
         THEN [b EXCEPT !.notion = @ \cup {Take(news.title, NotionTitleLen)},
                        !.run.uploaded = @ + 1,
                        !.trace.remote = "created"]
         ELSE [b EXCEPT !.run.sink_failures = @ + 1, !.trace.remote = "failed"]

\* variant: a filtered item is counted but still written
FilterAndWrite_no_continue(b, news, analysis, env) ==
    IF analysis.kind # "object"
    THEN [b EXCEPT !.run.pc = "raised", !.run.error = "analysis"]
    ELSE IF ~Get(analysis.fields, "is_ai_related", TRUE)
         THEN ArchiveStep(
                NotionStep([b EXCEPT !.run.filtered = @ + 1, !.trace.relevant = "no"],
                           news, analysis, env.page),
                news, analysis, env.disk)
         ELSE ArchiveStep(
                NotionStep([b EXCEPT !.trace.relevant = "yes"], news, analysis,
                           env.page),
                news, analysis, env.disk)

\* the loop body from the relevance filter on: lines 1654-1733
FilterAndWrite(b, news, analysis, env) ==
    IF analysis.kind # "object"
    THEN \* analysis.get raises AttributeError, which run does not catch
         [b EXCEPT !.run.pc = "raised", !.run.error = "analysis"]
    ELSE IF ~Get(analysis.fields, "is_ai_related", TRUE)
         THEN [b EXCEPT !.run.filtered = @ + 1, !.trace.relevant = "no"]
         ELSE ArchiveStep(
                NotionStep([b EXCEPT !.trace.relevant = "yes"], news, analysis,
                           env.page),
                news, analysis, env.disk)

\* the classification step: lines 1646-1652
Classify(b, news, call) ==
    IF b.run.use_ai THEN analyze_news(news.title, news.content, call)
    ELSE JObject(_fallback_analysis(news.title, news.content))

UsedFallback(b, call) ==
    ~b.run.use_ai \/ call.raised \/ ~Truthy(call.value) \/ call.value.kind = "number"

\* variant: a remote duplicate is counted and then processed like a new item
LoopBody_skip_no_continue(b, news, env) ==
    IF ~b.run.no_notion /\ env.query = "raise"
    THEN [b EXCEPT !.run.pc = "raised", !.run.error = "transport",
                   !.trace.query = "raised"]
    ELSE LET dup == ~b.run.no_notion /\ env.query = "ok"
                    /\ check_duplicate(b.notion, news.title)
             analysis == Classify(b, news, env.call)
         IN  FilterAndWrite(
               [b EXCEPT !.run.skipped = IF dup THEN @ + 1 ELSE @,
                         !.trace.query = IF b.run.no_notion THEN "off"
                                         ELSE IF dup THEN "duplicate" ELSE "new",
                         !.trace.classified = TRUE,
                         !.trace.fallback = UsedFallback(b, env.call),
                         !.trace.analysis = analysis],
               news, analysis, env)

\* one iteration of the loop of run: lines 1637-1733
LoopBody(b, news, env) ==
    IF ~b.run.no_notion /\ env.query = "raise"
    THEN \* requests.post raises inside check_duplicate; nothing catches it
         [b EXCEPT !.run.pc = "raised", !.run.error = "transport",
                   !.trace.query = "raised"]
    ELSE IF ~b.run.no_notion /\ env.query = "ok"
            /\ check_duplicate(b.notion, news.title)
         THEN [b EXCEPT !.run.skipped = @ + 1, !.trace.query = "duplicate"]
         ELSE LET analysis == Classify(b, news, env.call)
              IN  FilterAndWrite(
                    [b EXCEPT !.trace.query = IF b.run.no_notion THEN "off" ELSE "new",
                              !.trace.classified = TRUE,
                              !.trace.fallback = UsedFallback(b, env.call),
                              !.trace.analysis = analysis],
                    news, analysis, env)

\* the pages the remote database holds before a run
InitialPages == { {}, {<<"G", "P", "T", " ", "Q", "z">>} }

InitRun ==
    /\ daily = NoDaily
    /\ fs = <<>>
    /\ entries = <<>>
    /\ last = NoOp
    /\ ncalls = 0
    /\ notion \in InitialPages
    /\ collector = NoCollect
    /\ pure = NoPure
    /\ \E use_ai \in BOOLEAN, no_notion \in BOOLEAN :
          run = [pc |-> "loop", use_ai |-> use_ai, no_notion |-> no_notion,
                 done |-> 0, uploaded |-> 0, skipped |-> 0, filtered |-> 0,
                 md_saved |-> 0, saved_dates |-> {}, error |-> "none",
                 sink_failures |-> 0]

ProcessItem ==
    /\ run.pc = "loop"
    /\ run.done < MaxItems
    /\ \E news \in RunItems, env \in Envs(run.use_ai, run.no_notion) :
          LET b == LoopBody([fs |-> fs, entries |-> entries, notion |-> notion,
                             run |-> [run EXCEPT !.done = @ + 1],
                             trace |-> NoTrace],
                            news, env)
          IN  /\ fs' = b.fs
              /\ entries' = b.entries
              /\ notion' = b.notion
              /\ run' = b.run
              /\ last' = [op |-> "item", news |-> news, trace |-> b.trace]
    /\ UNCHANGED <<ncalls, collector, pure, daily>>

ReturnStats ==
    /\ run.pc = "loop"
    /\ run' = [pc |-> "returned", use_ai |-> run.use_ai, no_notion |-> run.no_notion,
               done |-> run.done, sink_failures |-> run.sink_failures,
               result |-> [uploaded |-> run.uploaded, md_saved |-> run.md_saved,
                           filtered |-> run.filtered, skipped |-> run.skipped,
                           saved_dates |-> SortedAsc(run.saved_dates)]]
    /\ last' = [op |-> "return"]
    /\ UNCHANGED <<fs, entries, notion, ncalls, collector, pure, daily>>

NextRun == ProcessItem \/ ReturnStats

SpecRun == InitRun /\ [][NextRun]_vars

----------------------------------------------------------------------------
(* run_daily.main: collect without the remote sink, then commit and push *)

\* the classifier credentials the environment may define
ClassifierKeys == {"OPENAI_API_KEY", "ANTHROPIC_API_KEY"}

\* the credential AINewsBot.__init__ asks for
KeyOf(provider) == IF provider = "claude" THEN "ANTHROPIC_API_KEY" ELSE "OPENAI_API_KEY"

\* AINewsBot.__init__: ValueError when the provider's key is not set
__init__(provider, keys) ==
    IF KeyOf(provider) \in keys THEN "constructed" ELSE "ValueError"

\* the commit message: "docs: " followed by the saved dates
CommitMessage(saved_dates) ==
    <<"d", "o", "c", "s", ":", " ">> \o Join(saved_dates, <<",", " ">>)

\* what a git command may answer: returncode 0, "nothing to commit" with a
\* non-zero returncode, or any other failure (subprocess.run raising included)
GitAnswers == {"ok", "nothing to commit", "failed"}

\* the outcome of the command and of the script after it
Ran(d, cmd, answer, next_pc) ==
    [d EXCEPT
        !.git = Append(@, [cmd |-> cmd, answer |-> answer]),
        !.pc = IF answer = "ok" THEN next_pc ELSE "exited",
        !.exit = IF answer = "ok" THEN (IF next_pc = "exited" THEN "0" ELSE @)
                 ELSE IF cmd = "commit" /\ answer = "nothing to commit" THEN "0"
                 ELSE "1"]

InitDaily ==
    /\ \E no_ai \in BOOLEAN, dry_run \in BOOLEAN, provider \in {"openai", "claude"},
          keys \in SUBSET ClassifierKeys :
          daily = [pc |-> "start", no_ai |-> no_ai, dry_run |-> dry_run,
                   provider |-> provider, keys |-> keys, git |-> <<>>,
                   message |-> <<>>, exit |-> "none"]
    /\ fs = <<>>
    /\ entries = <<>>
    /\ last = NoOp
    /\ ncalls = 0
    /\ notion = {}
    /\ collector = NoCollect
    /\ pure = NoPure
    /\ run = NoRun

\* lines 64-66: the bot is constructed and run is entered with the remote
\* sink off; a ValueError of the constructor is caught at line 67
ConstructBot ==
    /\ daily.pc = "start"
    /\ IF __init__(daily.provider, daily.keys) = "constructed"
       THEN /\ daily' = [daily EXCEPT !.pc = "collecting"]
            /\ run' = [pc |-> "loop", use_ai |-> ~daily.no_ai, no_notion |-> TRUE,
                       done |-> 0, uploaded |-> 0, skipped |-> 0, filtered |-> 0,
                       md_saved |-> 0, saved_dates |-> {}, error |-> "none",
                       sink_failures |-> 0]
       ELSE /\ daily' = [daily EXCEPT !.pc = "exited", !.exit = "1"]
            /\ run' = run
    /\ last' = [op |-> "construct"]
    /\ UNCHANGED <<fs, entries, ncalls, notion, collector, pure>>

\* variant: dry-run mode is not looked at
AfterRun_no_dry_run(d, result) ==
    IF result.md_saved = 0 THEN [d EXCEPT !.pc = "exited", !.exit = "0"]
    ELSE [d EXCEPT !.pc = "git add", !.message = CommitMessage(result.saved_dates)]

\* lines 72-83: what main does with the statistics run returned
AfterRun(d, result) ==
    IF result.md_saved = 0 THEN [d EXCEPT !.pc = "exited", !.exit = "0"]
    ELSE IF d.dry_run THEN [d EXCEPT !.pc = "exited", !.exit = "0"]
    ELSE [d EXCEPT !.pc = "git add", !.message = CommitMessage(result.saved_dates)]

\* lines 66-83: run has returned, or has raised and main catches it
CheckSaved ==
    /\ daily.pc = "collecting"
    /\ run.pc \in {"returned", "raised"}
    /\ daily' = IF run.pc = "raised"
                THEN [daily EXCEPT !.pc = "exited", !.exit = "1"]
                ELSE AfterRun(daily, run.result)
    /\ last' = [op |-> "check_saved"]
    /\ UNCHANGED <<fs, entries, ncalls, notion, run, collector, pure>>

\* lines 90-95
GitAdd ==
    /\ daily.pc = "git add"
    /\ \E answer \in {"ok", "failed"} :
          daily' = Ran(daily, "add", answer, "git commit")
    /\ last' = [op |-> "git"]
    /\ UNCHANGED <<fs, entries, ncalls, notion, run, collector, pure>>

\* lines 101-109
GitCommit ==
    /\ daily.pc = "git commit"
    /\ \E answer \in GitAnswers :
          daily' = Ran(daily, "commit", answer, "git push")
    /\ last' = [op |-> "git"]
    /\ UNCHANGED <<fs, entries, ncalls, notion, run, collector, pure>>

\* lines 111-122: after a successful push main returns
GitPush ==
    /\ daily.pc = "git push"
    /\ \E answer \in {"ok", "failed"} :
          daily' = Ran(daily, "push", answer, "exited")
    /\ last' = [op |-> "git"]
    /\ UNCHANGED <<fs, entries, ncalls, notion, run, collector, pure>>

NextDaily ==
    ConstructBot \/ ProcessItem \/ ReturnStats \/ CheckSaved
    \/ GitAdd \/ GitCommit \/ GitPush

SpecDaily == InitDaily /\ [][NextDaily]_vars

----------------------------------------------------------------------------
(* collect_news as an operation *)

MaxEntries == 2

\* datetime.now(timezone.utc) at the call
NowUtc == DateTime(2025, 1, 10, 12, 0, 0)

\* the clock of a host on UTC and of a host nine hours ahead of it
Clocks ==
    { [utc |-> NowUtc, local |-> NowUtc],
      [utc |-> NowUtc, local |-> DateTime(2025, 1, 10, 21, 0, 0)] }

DaysArgs == {1, 3}

\* what _get_content returns for the entries of the feeds below
ContentData == [content |-> <<"x", "y">>, image_url |-> <<>>, all_images |-> <<>>]

TwoDaysAgo == <<"2", "0", "2", "5", "-", "0", "1", "-", "0", "8", " ", "1", "2", ":", "0", "0", ":", "0", "0">>

\* feed entries dated around the two cutoffs: exactly one day old, two days,
\* exactly three days, three days and a second; a date with a UTC offset; an
\* unparsable date beside a parsed tuple; no date at all; only an updated
\* date
EntryPool ==
    << [title |-> <<"e">>, published |-> <<"2", "0", "2", "5", "-", "0", "1", "-", "0", "9", " ", "1", "2", ":", "0", "0", ":", "0", "0">>,
         content_data |-> ContentData],
       [title |-> <<"e">>, published |-> <<"2", "0", "2", "5", "-", "0", "1", "-", "0", "8", " ", "1", "2", ":", "0", "0", ":", "0", "0">>,
         content_data |-> ContentData],
       [title |-> <<"e">>, published |-> <<"2", "0", "2", "5", "-", "0", "1", "-", "0", "7", " ", "1", "2", ":", "0", "0", ":", "0", "0">>,
         content_data |-> ContentData],
       [title |-> <<"e">>, published |-> <<"2", "0", "2", "5", "-", "0", "1", "-", "0", "7", " ", "1", "1", ":", "5", "9", ":", "5", "9">>,
         content_data |-> ContentData],
       [title |-> <<"e">>, published |-> <<"T", "h", "u", ",", " ", "0", "9", " ", "J", "a", "n", " ", "2", "0", "2", "5", " ", "1", "6", ":", "0", "0", ":", "0", "0", " ", "+", "0", "9", "0", "0">>,
         content_data |-> ContentData],
       [title |-> <<"e">>, published |-> <<"x">>, published_parsed |-> <<2025, 1, 8, 12, 0, 0>>,
         content_data |-> ContentData],
       [title |-> <<"e">>,
         content_data |-> ContentData],
       [title |-> <<"e">>, updated |-> <<"2", "0", "2", "5", ".", "0", "1", ".", "0", "9", " ", "1", "1", ":", "0", "0">>,
         content_data |-> ContentData] >>

\* an entry published an hour ago, used to fill a feed up to its cap
PadEntry ==
    [title |-> <<"e">>, published |-> <<"2", "0", "2", "5", "-", "0", "1", "-", "1", "0", " ", "1", "1", ":", "0", "0", ":", "0", "0">>,
     content_data |-> ContentData]

PadSizes == {0, FeedCap - 1, FeedCap}

\* the entries of a feed, each with a link that names the feed and the
\* position
Numbered(name, feed_entries) ==
    [i \in 1..Len(feed_entries) |->
        feed_entries[i] @@ ("link" :> (name \o FmtInt(i)))]

RECURSIVE SeqsUpTo(_, _)
SeqsUpTo(S, n) ==
    IF n = 0 THEN {<<>>}
    ELSE LET shorter == SeqsUpTo(S, n - 1)
         IN  shorter \cup {Append(q, x) : q \in shorter, x \in S}

\* the configured feeds: feed A holds the padding and up to MaxEntries
\* entries of the pool, feed M an entry published an hour ago, feed B the
\* entry dated two days ago; raises says that fetching feed M raises
Feeds(raises, pad, base) ==
    << [name |-> <<"A">>, raises |-> FALSE,
        entries |-> Numbered(<<"A">>,
                             [i \in 1..pad |-> PadEntry]
                             \o [i \in 1..Len(base) |-> EntryPool[base[i]]])],
       [name |-> <<"M">>, raises |-> raises,
        entries |-> Numbered(<<"M">>, <<PadEntry>>)],
       [name |-> <<"B">>, raises |-> FALSE,
        entries |-> Numbered(<<"B">>, <<EntryPool[2]>>)] >>

FeedInputs ==
    { Feeds(FALSE, pad, base) :
        pad \in PadSizes,
        base \in SeqsUpTo(1..Len(EntryPool), MaxEntries) \ {<<>>} }
    \cup
    { Feeds(TRUE, 0, base) :
        base \in SeqsUpTo(1..Len(EntryPool), MaxEntries) \ {<<>>} }

InitCollect ==
    /\ daily = NoDaily
    /\ fs = <<>>
    /\ entries = <<>>
    /\ last = NoOp
    /\ ncalls = 0
    /\ notion = {}
    /\ run = NoRun
    /\ pure = NoPure
    /\ \E feeds \in FeedInputs, days \in DaysArgs, clock \in Clocks :
          collector = [pc |-> "called", feeds |-> feeds, days |-> days,
                       clock |-> clock, all_news |-> <<>>]

CollectNews ==
    /\ collector.pc = "called"
    /\ collector' = [collector EXCEPT
                        !.pc = "returned",
                        !.all_news = collect_news(collector.feeds, collector.days,
                                                  collector.clock)]
    /\ last' = [op |-> "collect_news"]
    /\ UNCHANGED <<fs, entries, ncalls, notion, run, pure, daily>>

NextCollect == CollectNews

SpecCollect == InitCollect /\ [][NextCollect]_vars

----------------------------------------------------------------------------
(* _get_content as an operation *)

\* a text of n characters without blanks
Filler(n) == [i \in 1..n |-> "x"]

PageUrl == <<"h", "t", "t", "p", "s", ":", "/", "/", "e", ".", "c", "o", "m", "/", "n", "/", "1">>
AdHostUrl == <<"h", "t", "t", "p", "s", ":", "/", "/", "a", "d", ".", "e", ".", "c", "o", "m", "/", "n", "/", "1">>

UploadsJpg == <<"h", "t", "t", "p", "s", ":", "/", "/", "e", ".", "c", "o", "m", "/", "w", "p", "-", "c", "o", "n", "t", "e", "n", "t", "/", "u", "p", "l", "o", "a", "d", "s", "/", "a", ".", "j", "p", "g">>
TrackingPixel == <<"h", "t", "t", "p", "s", ":", "/", "/", "t", ".", "e", ".", "c", "o", "m", "/", "p", "i", "x", "e", "l", ".", "g", "i", "f">>
SpacerGif == <<"h", "t", "t", "p", "s", ":", "/", "/", "e", ".", "c", "o", "m", "/", "i", "m", "g", "/", "1", "x", "1", ".", "g", "i", "f">>
RootRelativeJpg == <<"/", "i", "m", "a", "g", "e", "s", "/", "a", ".", "j", "p", "g">>
UnclosedBracket == <<"h", "t", "t", "p", ":", "/", "/", "[", "e", "/", "a", ".", "j", "p", "g">>

\* a distinct image of a gallery
GalleryImage(i) == <<"h", "t", "t", "p", "s", ":", "/", "/", "e", ".", "c", "o", "m", "/", "p", "h", "o", "t", "o", "/">> \o FmtInt(i) \o <<".", "p", "n", "g">>

Img(matches, src) ==
    [matches |-> matches, src |-> src, data_src |-> <<>>, data_original |-> <<>>]

\* the Open Graph image of a page: none, an uploads picture, a tracking
\* pixel, a picture named relative to the site, a url urljoin rejects
OgChoices == {<<>>, UploadsJpg, TrackingPixel, RootRelativeJpg, UnclosedBracket}

\* the img elements of a page: none; a picture found by two selectors next
\* to a spacer, a pixel and a lazily loaded picture; a gallery of twelve
ImgChoices ==
    { <<>>,
      << Img({1, 2}, UploadsJpg), Img({2}, SpacerGif), Img({2}, TrackingPixel),
         [matches |-> {2}, src |-> <<>>, data_src |-> GalleryImage(1),
          data_original |-> <<>>],
         Img({}, GalleryImage(2)) >>,
      [i \in 1..(MaxImages + 2) |-> Img({2}, GalleryImage(i))] }

Body(selector, text) == [selector |-> selector, text |-> text]

\* the article containers of a page and their texts: none; a short article;
\* a container of exactly 200 characters before an article of 201; a long
\* container; a container with lines of boilerplate; an empty container
BodyChoices ==
    { <<>>,
      << Body(12, Filler(50)) >>,
      << Body(1, Filler(ScrapeMinLen)), Body(12, Filler(ScrapeMinLen + 1)) >>,
      << Body(3, Filler(ContentCap + 100)) >>,
      << Body(3, Filler(150) \o <<NL, "4", "2", NL, "#", "a", "i", NL, "o", "k", NL>>
                 \o Filler(150)) >>,
      << Body(2, <<>>) >> }

NoSoup == [og |-> <<>>, imgs |-> <<>>, bodies |-> <<>>]

\* pages: every choice of pictures without an article container, every
\* choice of container without pictures, and containers beside pictures
Soups ==
    { [og |-> og, imgs |-> imgs, bodies |-> <<>>] :
        og \in OgChoices, imgs \in ImgChoices }
    \cup { [og |-> <<>>, imgs |-> <<>>, bodies |-> bodies] : bodies \in BodyChoices }
    \cup { [og |-> og, imgs |-> [i \in 1..2 |-> Img({2}, GalleryImage(i))],
            bodies |-> << Body(1, Filler(ScrapeMinLen)),
                          Body(12, Filler(ScrapeMinLen + 1)) >>] :
            og \in OgChoices }

\* what the site answers: the request raises, the status is an error,
\* BeautifulSoup raises, or a page
ArticlePages ==
    { [fetch |-> f, parse |-> "ok", soup |-> NoSoup] : f \in {"raise", "http_error"} }
    \cup { [fetch |-> "ok", parse |-> "raise", soup |-> NoSoup] }
    \cup { [fetch |-> "ok", parse |-> "ok", soup |-> soup] : soup \in Soups }

\* feed entries: a short summary; a structured content beside a summary; a
\* summary longer than the cap; a description and no link; no text at all;
\* a summary of 300 characters on a site whose host name has "ad." in it
ExtractEntries ==
    { [summary |-> <<Node("p", <<"a", " ", "b">>), Node("script", <<"s">>),
                     Node("p", <<" ", "c", " ", " ", "d", NL, NL, NL, "e", " ">>)>>,
       link |-> PageUrl],
      [content |-> <<[value |-> <<Node("p", Filler(30))>>]>>,
       summary |-> <<Node("p", <<"a">>)>>, link |-> PageUrl],
      [summary |-> <<Node("p", Filler(ContentCap + 1))>>, link |-> PageUrl],
      [description |-> <<Node("p", Filler(20))>>],
      [link |-> PageUrl],
      [summary |-> <<Node("p", Filler(300))>>, link |-> AdHostUrl] }

InitExtract ==
    /\ daily = NoDaily
    /\ fs = <<>>
    /\ entries = <<>>
    /\ last = NoOp
    /\ ncalls = 0
    /\ notion = {}
    /\ run = NoRun
    /\ collector = NoCollect
    /\ \E entry \in ExtractEntries, page \in ArticlePages :
          pure = [pc |-> "called", op |-> "get_content", entry |-> entry,
                  page |-> page, result |-> NoScrape]

GetContent ==
    /\ pure.pc = "called"
    /\ pure.op = "get_content"
    /\ pure' = [pure EXCEPT !.pc = "returned",
                            !.result = _get_content(pure.entry, pure.page)]
    /\ last' = [op |-> "get_content"]
    /\ UNCHANGED <<fs, entries, ncalls, notion, run, collector, daily>>

NextExtract == GetContent

SpecExtract == InitExtract /\ [][NextExtract]_vars

----------------------------------------------------------------------------
(* _parse_json_response as an operation *)

\* a string as the classifier writes it in a reply
RECURSIVE Escaped(_)
Escaped(s) ==
    IF s = <<>> THEN <<>>
    ELSE (IF Head(s) \in {QUOTE, BSLASH} THEN <<BSLASH, Head(s)>>
          ELSE IF Head(s) = NL THEN <<BSLASH, "n">>
          ELSE <<Head(s)>>) \o Escaped(Tail(s))

JsonString(s) == <<QUOTE>> \o Escaped(s) \o <<QUOTE>>

JsonArray(items) ==
    <<"[">> \o Join([i \in 1..Len(items) |-> JsonString(items[i])], <<",", " ">>)
            \o <<"]">>

Member(key, value) == JsonString(key) \o <<":", " ">> \o value

\* the reply the prompt asks for (lines 391-399), written on one line
ReplyText(r) ==
    <<"{">>
    \o Join(<< Member(K_is_ai_related,
                      IF r.is_ai_related THEN TrueLiteral ELSE FalseLiteral),
               Member(K_rejection_reason, JsonString(r.rejection_reason)),
               Member(K_summary, JsonString(r.summary)),
               Member(K_key_sentences, JsonArray(r.key_sentences)),
               Member(K_technologies, JsonArray(r.technologies)),
               Member(K_organization, JsonString(r.organization)),
               Member(K_importance, JsonString(r.importance)) >>,
            <<",", " ">>)
    \o <<"}">>

Reply(related, reason, summary, sentences) ==
    [is_ai_related |-> related, rejection_reason |-> reason, summary |-> summary,
     key_sentences |-> sentences, technologies |-> << <<"L", "L", "M">> >>,
     organization |-> <<"A", "c", "m", "e">>, importance |-> ImportanceNormal]

\* classifications: plain texts; a quotation, a line break, braces and a
\* fence inside the summary; a rejection; sentences with a quotation
Replies ==
    { Reply(TRUE, <<>>, <<"o", "k", " ", "g", "o">>, << <<"a">> >>),
      Reply(TRUE, <<>>, <<"s", "a", "y", " ", QUOTE, "h", "i", QUOTE>>, <<>>),
      Reply(TRUE, <<>>, <<"a", NL, "b">>, << <<"a">>, <<"b">> >>),
      Reply(TRUE, <<>>, <<"f", "{", "x", "}">>, <<>>),
      Reply(TRUE, <<>>, <<"a", " ">> \o Fence \o <<" ", "b">>, <<>>),
      Reply(FALSE, <<"n", "o", "t", " ", "a", "i">>, <<>>, <<>>),
      Reply(FALSE, <<"a", "d">>, <<"n", "o">>, << <<QUOTE, "q", QUOTE>> >>),
      Reply(TRUE, <<"o", BSLASH, "k">>, <<"u", "p">>, << <<"a">> >>) }

\* the ways a reply reaches the parser: as it is; inside a fence with and
\* without the language tag; without its closing brace; between words; with
\* the line breaks of its strings written raw; one member to a line
Forms == {"plain", "fenced_json", "fenced", "unclosed", "prose", "raw_newlines", "lines"}

\* the escaped line breaks of a text written as line breaks
EscapeStart(s, i) ==
    /\ i >= 1
    /\ s[i] = BSLASH
    /\ \E k \in 0..(i - 1) :
          /\ k = 0 \/ s[k] # BSLASH
          /\ \A j \in (k + 1)..(i - 1) : s[j] = BSLASH
          /\ (i - 1 - k) % 2 = 0

RawNewlines(s) ==
    FirstOfEach(SelectSeq(
        [i \in 1..Len(s) |->
            << IF EscapeStart(s, i) /\ i < Len(s) /\ s[i + 1] = "n" THEN NL ELSE s[i],
               ~(s[i] = "n" /\ EscapeStart(s, i - 1)) >>],
        LAMBDA m : m[2]))

\* a line break in place of the blank behind each comma that ends a member
OnLines(s) ==
    [i \in 1..Len(s) |->
        IF 1 < i /\ i < Len(s) /\ s[i - 1] = "," /\ s[i] = " " /\ s[i + 1] = QUOTE
        THEN NL
        ELSE s[i]]

Written(form, payload) ==
    CASE form = "plain" -> payload
      [] form = "fenced_json" -> JsonFence \o <<NL>> \o payload \o <<NL>> \o Fence
      [] form = "fenced" -> Fence \o <<NL>> \o payload \o <<NL>> \o Fence
      [] form = "unclosed" -> Take(payload, Len(payload) - 1)
      [] form = "prose" -> <<"H", "e", "r", "e", ":", " ">> \o payload \o <<" ", "o", "k">>
      [] form = "raw_newlines" -> RawNewlines(payload)
      [] form = "lines" -> OnLines(RawNewlines(payload))

\* replies that are not a classification
OddTexts ==
    { <<>>,
      NullLiteral,
      JsonFence \o <<NL>> \o NullLiteral \o <<NL>> \o Fence,
      <<"s", "o", "r", "r", "y">>,
      <<"t", "r", "u", "e">>,
      <<QUOTE>> \o <<"I", "S", "_", "A", "I", "_", "R", "E", "L", "A", "T", "E", "D">> \o <<QUOTE, " ", ":", " ", "T", "R", "U", "E">>,
      Member(K_summary, JsonString(<<"x">>)),
      <<"{">> \o Member(K_is_ai_related, TrueLiteral) \o <<"}", " ", "{">>
              \o Member(K_summary, JsonString(<<"x">>)) \o <<"}">>,
      <<"{">> \o Member(K_is_ai_related, TrueLiteral) \o <<",", " ">>
              \o Member(K_is_ai_related, FalseLiteral) \o <<"}">>,
      JsonFence \o <<NL, "{">> \o Member(K_is_ai_related, FalseLiteral)
                \o <<"}", NL>> \o Fence \o <<" ", "{">>
                \o Member(K_summary, JsonString(<<"x">>)) \o <<"}">>,
      <<"{">> \o Member(K_is_ai_related, JsonString(TrueLiteral)),
      <<"{">> \o Member(K_summary, <<"[", "1", ",", " ", "2", "0", "]">>) \o <<"}">>,
      <<"{", "}">> }

NoReply == [is_ai_related |-> FALSE, rejection_reason |-> <<>>, summary |-> <<>>,
            key_sentences |-> <<>>, technologies |-> <<>>, organization |-> <<>>,
            importance |-> <<>>]

ParseInputs ==
    { [form |-> form, reply |-> r, text |-> Written(form, ReplyText(r))] :
        form \in Forms, r \in Replies }
    \cup { [form |-> "odd", reply |-> NoReply, text |-> t] : t \in OddTexts }

InitParse ==
    /\ daily = NoDaily
    /\ fs = <<>>
    /\ entries = <<>>
    /\ last = NoOp
    /\ ncalls = 0
    /\ notion = {}
    /\ run = NoRun
    /\ collector = NoCollect
    /\ \E input \in ParseInputs :
          pure = [pc |-> "called", op |-> "parse_json", input |-> input,
                  result |-> None]

ParseReply ==
    /\ pure.pc = "called"
    /\ pure.op = "parse_json"
    /\ pure' = [pure EXCEPT !.pc = "returned",
                            !.result = _parse_json_response(pure.input.text)]
    /\ last' = [op |-> "parse_json"]
    /\ UNCHANGED <<fs, entries, ncalls, notion, run, collector, daily>>

NextParse == ParseReply

SpecParse == InitParse /\ [][NextParse]_vars

----------------------------------------------------------------------------
(* Date normalization as an operation: _parse_date, then the removal of *)
(* tzinfo in collect_news                                                *)

\* the wall-clock date-times that are written out
WallClocks ==
    { DateTime(2025, 1, 9, 0, 0, 0), DateTime(2025, 1, 9, 12, 0, 0),
      DateTime(2025, 1, 9, 12, 34, 56), DateTime(2024, 2, 29, 23, 59, 59),
      DateTime(2025, 12, 31, 9, 5, 0) }

\* the ways an offset is written where a format has %z
OffsetTexts ==
    { <<"+", "0", "9", "0", "0">>, <<"-", "0", "5", "0", "0">>,
      <<"+", "0", "9", ":", "0", "0">>, <<"Z">> }

\* a trailing offset or zone abbreviation after a format that has none
ZoneSuffixes ==
    { <<>>, <<" ", "K", "S", "T">>, <<" ", "G", "M", "T">>,
      <<" ", "+", "0", "9", "0", "0">>, <<" ", "-", "0", "5", "0", "0">> }

\* two forms only the RFC 2822 parser reads: no seconds
RfcFormats ==
    << <<"%d", " ", "%b", " ", "%Y", " ", "%H", ":", "%M">>,
       <<"%a", ",", " ", "%d", " ", "%b", " ", "%Y", " ", "%H", ":", "%M">> >>

RfcSuffixes == { <<" ", "+", "0", "9", "0", "0">>, <<" ", "G", "M", "T">> }

Capitalize(word) == <<UpperChar(word[1])>> \o Tail(word)

\* what strftime writes for one element of a format
RenderToken(tok, w, offset) ==
    CASE tok = "%Y" -> FmtInt(w.year)
      [] tok = "%m" -> Fmt02(w.month)
      [] tok = "%d" -> Fmt02(w.day)
      [] tok = "%H" -> Fmt02(w.hour)
      [] tok = "%M" -> Fmt02(w.minute)
      [] tok = "%S" -> Fmt02(w.second)
      [] tok = "%b" -> Capitalize(MonthNames[w.month])
      [] tok = "%a" -> Capitalize(DayNames[((ToOrdinal(w) - 1) % 7) + 1])
      [] tok = "%z" -> offset
      [] OTHER -> <<tok>>

RECURSIVE Render(_, _, _)
Render(fmt, w, offset) ==
    IF fmt = <<>> THEN <<>>
    ELSE RenderToken(Head(fmt), w, offset) \o Render(Tail(fmt), w, offset)

HasToken(fmt, tok) == \E k \in 1..Len(fmt) : fmt[k] = tok

\* the format has a place for every field of w that is not zero
Writable(fmt, w) ==
    /\ HasToken(fmt, "%H") \/ (w.hour = 0 /\ w.minute = 0 /\ w.second = 0)
    /\ HasToken(fmt, "%S") \/ w.second = 0

\* the format names a zone itself
HasZone(fmt) == HasToken(fmt, "%z") \/ fmt[Len(fmt)] = "Z"

\* the texts that write w in one format
WritingsIn(fmt, w) ==
    { Render(fmt, w, off) \o suffix :
        off \in (IF HasToken(fmt, "%z") THEN OffsetTexts ELSE {<<>>}),
        suffix \in (IF HasZone(fmt) THEN {<<>>} ELSE ZoneSuffixes) }

\* the texts that write w in a supported format
Writings(w) ==
    UNION { WritingsIn(date_formats[k], w) :
              k \in { j \in 1..Len(date_formats) : Writable(date_formats[j], w) } }
    \cup
    { Render(RfcFormats[k], w, <<>>) \o suffix :
        k \in { j \in 1..Len(RfcFormats) : Writable(RfcFormats[j], w) },
        suffix \in RfcSuffixes }

\* texts no format reads
UnparseableTexts ==
    { <<"x">>, <<"2", "0", "2", "5", "-", "1", "3", "-", "4", "0">>,
      <<"2", "0", "2", "5", "-", "0", "1", "-", "0", "9", "T", "1", "2", ":", "0", "0",
        ":", "0", "0", ".", "1", "Z">>,
      <<"9", " ", "J", "a", "n">> }

\* the calls of the normalization: a text, the wall-clock it writes (NoDate
\* for a text that writes none), the clock of the host
NormalizeInputs ==
    UNION { { [text |-> t, written |-> w] : t \in Writings(w) } : w \in WallClocks }
    \cup { [text |-> t, written |-> NoDate] : t \in UnparseableTexts }

InitNormalize ==
    /\ daily = NoDaily
    /\ fs = <<>>
    /\ entries = <<>>
    /\ last = NoOp
    /\ ncalls = 0
    /\ notion = {}
    /\ run = NoRun
    /\ collector = NoCollect
    /\ \E input \in NormalizeInputs, clock \in Clocks :
          pure = [pc |-> "called", op |-> "normalize", input |-> input,
                  now_local |-> clock.local, parsed |-> NoDate,
                  pub_date |-> NoDate]

\* lines 811-815 of collect_news for an entry whose published is the text
NormalizeDate ==
    /\ pure.pc = "called"
    /\ pure.op = "normalize"
    /\ pure' = [pure EXCEPT
                   !.pc = "returned",
                   !.parsed = _parse_date([published |-> pure.input.text],
                                          pure.now_local),
                   !.pub_date = StripTz(_parse_date([published |-> pure.input.text],
                                                    pure.now_local))]
    /\ last' = [op |-> "normalize"]
    /\ UNCHANGED <<fs, entries, ncalls, notion, run, collector, daily>>

NextNormalize == NormalizeDate

SpecNormalize == InitNormalize /\ [][NextNormalize]_vars

----------------------------------------------------------------------------
(* Reading the archive back *)

Lines(text) == SplitOn(text, NL)

\* the count README.md states in its "> total **N**" line
ReadTotal(readme) ==
    LET ls == Lines(readme)
        k == CHOOSE i \in 1..Len(ls) : StartsWith(ls[i], TotalPrefix)
        rest == Drop(ls[k], Len(TotalPrefix))
        n == CHOOSE j \in 0..Len(rest) :
                 /\ \A i \in 1..j : IsDigit(rest[i])
                 /\ (j < Len(rest) => ~IsDigit(rest[j + 1]))
    IN  IntOf(Take(rest, n))

MonthsOf(files) == {<<p[1], p[2]>> : p \in DOMAIN files}

IsDaily(p) == EndsWith(p[3], MdExt) /\ p[3] # ReadmeName

DailyPaths(files, m) ==
    {p \in DOMAIN files : p[1] = m[1] /\ p[2] = m[2] /\ IsDaily(p)}

IndexPath(m) == <<m[1], m[2], ReadmeName>>

RECURSIVE SumOver(_, _)
SumOver(S, f) ==
    IF S = {} THEN 0
    ELSE LET x == CHOOSE y \in S : TRUE IN f[x] + SumOver(S \ {x}, f)

\* the lines of a text that satisfy a test, by position
LinesWhere(text, Test(_)) ==
    LET ls == Lines(text) IN {i \in 1..Len(ls) : Test(ls[i])}

IsH3Line(l) == StartsWith(l, H3)

IsLinkLine(l) == StartsWith(l, <<"LINK_EMOJI", " ", "[", "VIEW_SOURCE_KO", "]", "(">>)

EntriesIn(hist, p) == IF p \in DOMAIN hist THEN hist[p] ELSE <<>>

EntriesOf(p) == EntriesIn(entries, p)

SavedAgain ==
    /\ last.op = "save_news" /\ last'.op = "save_news"
    /\ ncalls' = ncalls + 1
    /\ last'.news.title = last.news.title
    /\ last'.news.link = last.news.link
    /\ last'.path = last.path

C2_NoSharedTitleOrLink ==
    \A p \in DOMAIN fs :
        IsDaily(p) =>
            LET ls == Lines(fs[p])
            IN  \A i, j \in 1..Len(ls) :
                    (i # j /\ ls[i] = ls[j]) => ~(IsH3Line(ls[i]) \/ IsLinkLine(ls[i]))

EntryCount == [p \in DOMAIN fs |-> Len(EntriesOf(p))]

\* C3: for every month directory the total count written in the monthly
\* index equals the number of entries held in the month's daily files.
C3_IndexCountsEntries ==
    \A m \in MonthsOf(fs) :
        Exists(fs, IndexPath(m)) =>
            ReadTotal(fs[IndexPath(m)]) = SumOver(DailyPaths(fs, m), EntryCount)

H3Count == [p \in DOMAIN fs |-> Cardinality(LinesWhere(fs[p], IsH3Line))]

IsCountedHeading(l) == IsH3Line(l) /\ Len(l) > Len(H3) /\ l[Len(H3) + 1] # "TOC_EMOJI"

CountedHeadings == [p \in DOMAIN fs |-> Cardinality(LinesWhere(fs[p], IsCountedHeading))]

C5_FalseWritesNothing ==
    [][ (last'.op = "save_news" /\ ncalls' = ncalls + 1 /\ ~last'.ret) =>
            LET idx == <<last'.path[1], last'.path[2], ReadmeName>>
            IN  /\ Exists(fs', last'.path) = Exists(fs, last'.path)
                /\ Exists(fs, last'.path) => fs'[last'.path] = fs[last'.path]
                /\ Exists(fs', idx) = Exists(fs, idx)
                /\ Exists(fs, idx) => fs'[idx] = fs[idx] ]_vars

\* save_news has returned false for an item whose daily file exists
C5_Witness ==
    /\ last.op = "save_news" /\ ~last.ret
    /\ Exists(fs, last.path)
    /\ Exists(fs, <<last.path[1], last.path[2], ReadmeName>>)

----------------------------------------------------------------------------
(* AINewsBot.run: filtering, the two sinks, failures of the environment *)

\* the step processed an item of the run
ItemStep == last'.op = "item" /\ run'.done = run.done + 1

\* a classification whose is_ai_related is false
NotRelevant(analysis) ==
    /\ analysis.kind = "object"
    /\ "is_ai_related" \in DOMAIN analysis.fields
    /\ analysis.fields.is_ai_related = FALSE

\* C6: in AINewsBot.run an item whose classification has is_ai_related =
\* false is written to neither the remote sink nor the archive, and the only
\* run counter it changes is filtered, which grows by exactly one.
C6_FilteredWritesNothing ==
    [][(ItemStep /\ last'.trace.classified /\ NotRelevant(last'.trace.analysis))
        => /\ fs' = fs
           /\ notion' = notion
           /\ run'.filtered = run.filtered + 1
           /\ run'.uploaded = run.uploaded
           /\ run'.skipped = run.skipped
           /\ run'.md_saved = run.md_saved
           /\ run'.saved_dates = run.saved_dates
           /\ run'.pc = "loop"]_vars

\* an item was filtered in a run that has both sinks enabled and has already
\* written to both
C6_Witness ==
    /\ last.op = "item"
    /\ last.trace.classified
    /\ NotRelevant(last.trace.analysis)
    /\ ~run.no_notion
    /\ run.filtered = 1
    /\ run.uploaded = 1
    /\ run.md_saved = 1

\* the keyword classification of an item, which decides relevance when
\* use_ai is off
KeywordRelevant(news) == _fallback_analysis(news.title, news.content).is_ai_related

\* C7: with the remote sink enabled, a relevant item that the remote sink
\* reports as a duplicate is still written to the archive when the archive's
\* own duplicate check does not find it, and an item that is a duplicate in
\* the archive is still written to the remote sink when the remote check does
\* not find it.
C7_SinksGatedIndependently ==
    [][(ItemStep /\ ~run.no_notion)
        => /\ (/\ ~run.use_ai
               /\ KeywordRelevant(last'.news)
               /\ last'.trace.query = "duplicate"
               /\ SaveNewsResult(fs, last'.news))
              => /\ fs' = save_news(fs, last'.news,
                                    _fallback_analysis(last'.news.title,
                                                       last'.news.content))
                 /\ run'.md_saved = run.md_saved + 1
           /\ (/\ last'.trace.relevant = "yes"
               /\ last'.trace.query = "new"
               /\ ~SaveNewsResult(fs, last'.news))
              => last'.trace.remote # "n/a"]_vars

\* C9: no network call made during AINewsBot.run can terminate the run with
\* a transport error or timeout.
C9_NoTransportErrorEndsRun ==
    run.pc = "raised" => run.error # "transport"

\* C10: for every outcome of the classifier call, analyze_news returns a
\* classification record the orchestrator can consume, and AINewsBot.run
\* continues with the next item.
C10_ClassifierOutcomeConsumable ==
    (last.op = "item" /\ last.trace.classified)
        => /\ last.trace.analysis.kind = "object"
           /\ run.pc = "loop"

\* a sink write of the item failed
SinkFailed(trace) == trace.remote = "failed" \/ trace.archive = "error"

\* C11: a failing sink write (remote page creation or archive save) for one
\* item does not abort the batch: the loop of run goes on to the next item,
\* and after a failed remote write the archive write of the same item is
\* still made.
C11_SinkFailureKeepsBatch ==
    [][(ItemStep /\ SinkFailed(last'.trace))
        => /\ run'.pc = "loop"
           /\ last'.trace.remote = "failed" => last'.trace.archive # "n/a"
           /\ (last'.trace.remote = "failed" /\ last'.trace.archive # "error")
              => /\ fs' = save_news(fs, last'.news, last'.trace.analysis.fields)
                 /\ run'.md_saved
                      = run.md_saved + (IF SaveNewsResult(fs, last'.news) THEN 1 ELSE 0)]_vars

\* the first item failed in a sink and the second one was written to both
C11_Witness ==
    /\ run.pc = "loop"
    /\ run.done = 2
    /\ run.sink_failures = 1
    /\ last.op = "item"
    /\ last.trace.remote = "created"
    /\ last.trace.archive = "saved"

\* the counters run returns
StatCounters == {"uploaded", "md_saved", "filtered", "skipped"}

\* C12: every sink write failure is counted: an item whose remote or archive
\* write failed increases a counter of the statistics run returns by one.
\* (Checked in its weakest form: some returned counter grows by one.)
C12_SinkFailureCounted ==
    [][(ItemStep /\ SinkFailed(last'.trace))
        => \E k \in StatCounters : run'[k] = run[k] + 1]_vars

----------------------------------------------------------------------------
(* collect_news: the recency window *)

\* the result holds an item made from the entry with this link
Collected(link) ==
    \E k \in 1..Len(collector.all_news) : collector.all_news[k].link = link

\* the normalized publication date-time of an entry
Normalized(entry) == StripTz(_parse_date(entry, collector.clock.local))

\* seconds from a to b, for naive date-times
SecondsBetween(a, b) ==
    ((ToOrdinal(b) - ToOrdinal(a)) * 86400) + ((b.hour - a.hour) * 3600)
    + ((b.minute - a.minute) * 60) + (b.second - a.second)

\* not older than now_utc_naive - days
WithinWindow(entry) ==
    SecondsBetween(Normalized(entry), collector.clock.utc) <= collector.days * 86400

\* C8: collect_news(days) includes a feed entry among the first 10 of its
\* feed if and only if its normalized publication date-time is not older
\* than now_utc_naive - days, and no entry after the first 10; an entry dated
\* 2 days ago is excluded with days = 1 and included with days = 3.
C8_WindowFilter ==
    collector.pc = "returned" =>
        \A f \in 1..Len(collector.feeds) :
            ~collector.feeds[f].raises =>
                \A i \in 1..Len(collector.feeds[f].entries) :
                    LET entry == collector.feeds[f].entries[i]
                    IN  /\ i <= FeedCap =>
                            (Collected(entry.link) <=> WithinWindow(entry))
                        /\ i > FeedCap => ~Collected(entry.link)
                        /\ (i <= FeedCap /\ Get(entry, "published", <<>>) = TwoDaysAgo)
                            => (Collected(entry.link) <=> collector.days = 3)

\* a one-day collection that kept the tenth entry of a feed, dropped the
\* eleventh, and dropped the entry dated two days ago
C8_Witness ==
    /\ collector.pc = "returned"
    /\ collector.days = 1
    /\ Len(collector.feeds[1].entries) > FeedCap
    /\ Collected(collector.feeds[1].entries[FeedCap].link)
    /\ WithinWindow(collector.feeds[1].entries[FeedCap + 1])
    /\ ~Collected(collector.feeds[1].entries[FeedCap + 1].link)
    /\ ~Collected(collector.feeds[3].entries[1].link)

----------------------------------------------------------------------------
(* Date normalization *)

\* the naive wall-clock reading of a date-time
Naive(w) == DateTime(w.year, w.month, w.day, w.hour, w.minute, w.second)

\* C16: date normalization always yields a timezone-naive date-time whose
\* wall-clock fields are those written in the input (a zone or offset is
\* stripped, not converted), so the same wall-clock date-time written in
\* each supported format yields an identical result; an unparseable input
\* yields the current time without raising.
C16_NormalizedWallClock ==
    (pure.pc = "returned" /\ pure.op = "normalize")
        => LET result == pure.pub_date
           IN  /\ result.ok
               /\ ~result.aware
               /\ pure.input.written.ok => result = Naive(pure.input.written)
               /\ ~pure.input.written.ok => result = pure.now_local

\* a date-time written with an offset of nine hours was read as it is
\* written
C16_Witness ==
    /\ pure.pc = "returned"
    /\ pure.op = "normalize"
    /\ pure.input.written = DateTime(2025, 1, 9, 12, 34, 56)
    /\ pure.parsed.ok
    /\ pure.parsed.aware
    /\ pure.parsed.offset = 540
    /\ pure.pub_date = DateTime(2025, 1, 9, 12, 34, 56)

----------------------------------------------------------------------------
(* collect_news: a failing feed, the order of the result *)

\* the feed and the position an item of the result comes from
Origin(link) ==
    CHOOSE o \in (1..Len(collector.feeds)) \X (1..(FeedCap + MaxEntries + 1)) :
        /\ o[2] <= Len(collector.feeds[o[1]].entries)
        /\ collector.feeds[o[1]].entries[o[2]].link = link

\* feed iteration order, then entry order
ComesBefore(a, b) == a[1] < b[1] \/ (a[1] = b[1] /\ a[2] < b[2])

\* C17: when processing one feed raises an error, collect_news still
\* returns, the failing feed is skipped, and the items of every other
\* configured feed are present in the result in feed-iteration order and,
\* within a feed, in entry order.
C17_FailingFeedSkipped ==
    collector.pc = "returned" =>
        /\ \A f \in 1..Len(collector.feeds) :
              \A i \in 1..Len(collector.feeds[f].entries) :
                 LET entry == collector.feeds[f].entries[i]
                 IN  IF collector.feeds[f].raises THEN ~Collected(entry.link)
                     ELSE (i <= FeedCap /\ WithinWindow(entry)) => Collected(entry.link)
        /\ \A k \in 1..Len(collector.all_news) :
              \A l \in (k + 1)..Len(collector.all_news) :
                 ComesBefore(Origin(collector.all_news[k].link),
                             Origin(collector.all_news[l].link))

\* the second feed raised; the result holds two items of the first feed and
\* the item of the third, in this order
C17_Witness ==
    /\ collector.pc = "returned"
    /\ collector.feeds[2].raises
    /\ Len(collector.all_news) = 3
    /\ collector.all_news[1].source = <<"A">>
    /\ collector.all_news[2].source = <<"A">>
    /\ collector.all_news[3].source = <<"B">>

----------------------------------------------------------------------------
(* Content extraction *)

\* the text the feed itself carries for the entry of the call
Baseline == _strip_html(rss_content(pure.entry))

\* the call of _get_content has returned
Extracted == pure.pc = "returned" /\ pure.op = "get_content"

\* the entry has a link and the page behind it was requested
Requested == Extracted /\ HasField(pure.entry, "link")

\* C13: content extraction never raises to its caller, and when the request,
\* the parse or the reading of the page raises, the result is exactly the
\* baseline text of the feed with an empty image list.
C13_ExtractionDegrades ==
    Extracted
        => /\ ~pure.result.raised
           /\ (Requested /\ ScrapeFails(pure.page))
                => /\ pure.result.content = Baseline
                   /\ pure.result.all_images = <<>>
                   /\ pure.result.image_url = <<>>

\* the request for the page of an entry with a text raised, and the text of
\* the feed came back
C13_Witness ==
    /\ Requested
    /\ pure.page.fetch = "raise"
    /\ pure.result.content # <<>>
    /\ pure.result.content = Baseline

\* the page offers the url as its Open Graph image or in an img element of
\* the article
Offered(url) ==
    \/ pure.page.soup.og = url
    \/ \E k \in 1..Len(pure.page.soup.imgs) :
          /\ pure.page.soup.imgs[k].matches # {}
          /\ ImgUrl(pure.page.soup.imgs[k]) = url

\* C14: the image list of an extraction has at most 10 urls, no url twice
\* and no url that contains an exclusion pattern, and a .jpg url under an
\* uploads path that the page offers is in the list.
C14_ImageListFiltered ==
    Extracted
        => LET images == pure.result.all_images
           IN  /\ Len(images) <= MaxImages
               /\ \A i, j \in 1..Len(images) : images[i] = images[j] => i = j
               /\ \A i \in 1..Len(images) :
                     ~AnyIn(exclude_patterns, Lower(images[i]))
               /\ (Requested /\ ~ScrapeFails(pure.page) /\ Offered(UploadsJpg))
                    => InSeq(UploadsJpg, images)

\* the cleaned text of the page of the call, before it is cut
CleanedScrape ==
    IF Requested /\ ~ScrapeFails(pure.page)
    THEN _clean_article_content(SelectContent(pure.page.soup.bodies, <<>>))
    ELSE <<>>

Longer(a, b) == IF Len(b) > Len(a) THEN b ELSE a

\* C18: the body an extraction returns is the longer of the baseline text
\* and the cleaned scraped text, and it is never longer than 8000
\* characters.
C18_LongerBodyCapped ==
    Extracted
        => /\ pure.result.content = Longer(Baseline, Take(CleanedScrape, ContentCap))
           /\ Len(pure.result.content) <= ContentCap

\* C19: when every selector that matches the page yields 200 characters or
\* fewer, the scrape of the page produces no body.
C19_ShortMatchesRejected ==
    (/\ Requested
     /\ ~ScrapeFails(pure.page)
     /\ \A k \in 1..Len(pure.page.soup.bodies) :
           Len(pure.page.soup.bodies[k].text) <= ScrapeMinLen)
        => _scrape_article(pure.entry.link, pure.page).content = <<>>

----------------------------------------------------------------------------
(* The parser of the classifier's reply *)

\* the call of _parse_json_response has returned
ReplyParsed == pure.pc = "returned" /\ pure.op = "parse_json"

\* what the parser makes of the reply of the call written well-formed
WellFormedRecord == _parse_json_response(ReplyText(pure.input.reply))

RequiredKeys ==
    {K_is_ai_related, K_rejection_reason, K_summary, K_importance, K_organization}

\* C15: the parser maps a well-formed reply and the same reply inside a
\* fence, with or without the language tag, to equal records, and maps the
\* same reply without its closing brace to a record that has the fields
\* is_ai_related, rejection_reason, summary, importance and organization
\* with the same values.
C15_SameRecordFromEachForm ==
    ReplyParsed
        => /\ pure.input.form \in {"fenced_json", "fenced"}
                => pure.result = WellFormedRecord
           /\ pure.input.form = "unclosed"
                => /\ "obj" \in DOMAIN pure.result
                   /\ \A key \in RequiredKeys :
                         /\ key \in DOMAIN pure.result.obj
                         /\ pure.result.obj[key] = WellFormedRecord.obj[key]

\* what each step of the parser gives for the text, in the order of the code
StepResults(text) ==
    << json_loads(text),
       LoadsGroup(FenceMatch(text, JsonFence)),
       LoadsGroup(FenceMatch(text, Fence)),
       LoadsGroup(BraceMatch(text)),
       LoadsEscaped(BraceMatch(text)),
       regex_extract(text) >>

\* the first step that succeeds, 0 when none does
FirstSuccess(steps) ==
    IF \E k \in DOMAIN steps : steps[k].ok
    THEN CHOOSE k \in DOMAIN steps : steps[k].ok /\ \A j \in 1..(k - 1) : ~steps[j].ok
    ELSE 0

\* the result is that of the first step that succeeds, None without one,
\* and the field-by-field step gives all seven fields
FirstSuccessReturned(result, steps) ==
    /\ FirstSuccess(steps) > 0 => result = steps[FirstSuccess(steps)].value
    /\ FirstSuccess(steps) = 0 => result = None
    /\ steps[6].ok => DOMAIN steps[6].value.obj = ClassificationKeys

\* C20 as stated: the steps are tried in the fixed order and the result of
\* the first that succeeds is returned, the field-by-field step gives a
\* record with all seven fields, and the failure value is returned only when
\* no step succeeds.
C20_FailureOnlyWithoutSuccess ==
    ReplyParsed
        => /\ FirstSuccessReturned(pure.result, StepResults(pure.input.text))
           /\ pure.result = None => FirstSuccess(StepResults(pure.input.text)) = 0

\* the value the first successful step gave is the one json.loads gives for
\* the literal null
NullDecoded(steps) ==
    FirstSuccess(steps) > 0 /\ steps[FirstSuccess(steps)].value = None

\* C20, amended: the steps are tried in the fixed order and the result of
\* the first that succeeds is returned, the field-by-field step gives a
\* record with all seven fields, and the failure value is returned exactly
\* when no step succeeds or the first step that succeeds decoded null.
C20_FirstSuccessOrNull ==
    ReplyParsed
        => /\ FirstSuccessReturned(pure.result, StepResults(pure.input.text))
           /\ pure.result = None
                <=> \/ FirstSuccess(StepResults(pure.input.text)) = 0
                    \/ NullDecoded(StepResults(pure.input.text))

\* a reply between words was decoded from its brace region although the
\* field-by-field step would have given a record too
C20_Witness ==
    /\ ReplyParsed
    /\ pure.input.form = "prose"
    /\ FirstSuccess(StepResults(pure.input.text)) = 4
    /\ regex_extract(pure.input.text).ok
    /\ pure.result.obj[K_technologies] = [arr |-> << [str |-> <<"L", "L", "M">>] >>]

----------------------------------------------------------------------------
(* The two tables of contents *)

\* the lines between the TOC markers of a daily file
TocBlock(content) ==
    LET starts == {k \in 1..Len(content) : content[k] = TocStart}
        i == CHOOSE k \in starts : \A h \in starts : k <= h
        ends == {k \in (i + 1)..Len(content) : content[k] = TocEnd}
        j == CHOOSE k \in ends : \A h \in ends : k <= h
    IN  IF starts = {} \/ ends = {} THEN <<>>
        ELSE Lines(SubSeq(content, i + 2, j - 2))

\* the title shown by a line "N. [title](#anchor)" of the TOC block
TocLineTitle(line) ==
    LET open == CHOOSE k \in 1..Len(line) :
                    line[k] = "[" /\ \A h \in 1..(k - 1) : line[h] # "["
        closes == {k \in 1..(Len(line) - 2) :
                      line[k] = "]" /\ line[k + 1] = "(" /\ line[k + 2] = "#"}
        close == CHOOSE k \in closes : \A h \in closes : h <= k
    IN  SubSeq(line, open + 1, close - 1)

IsTocLine(line) ==
    /\ line # <<>> /\ IsDigit(line[1])
    /\ \E k \in 1..(Len(line) - 2) :
          line[k] = "]" /\ line[k + 1] = "(" /\ line[k + 2] = "#"

\* the titles a daily file lists in its own TOC block
TocListed(content) ==
    LET ls == SelectSeq(TocBlock(content), IsTocLine)
    IN  [i \in 1..Len(ls) |-> TocLineTitle(ls[i])]

IsItemLine(line) == StartsWith(line, <<"-", " ">>)

RECURSIVE ItemsFrom(_, _)
ItemsFrom(ls, k) ==
    IF k > Len(ls) \/ ~IsItemLine(ls[k]) THEN <<>>
    ELSE <<Drop(ls[k], 2)>> \o ItemsFrom(ls, k + 1)

\* the titles README.md lists under the link to a daily file
IndexListed(readme, daily_file) ==
    LET ls == Lines(readme)
        link == <<"PAGE_EMOJI", " ", "[">> \o daily_file \o <<"]", "(", ".", "/">>
                \o daily_file \o <<")">>
        at == {k \in 1..Len(ls) : ls[k] = link}
    IN  IF at = {} THEN <<>>
        ELSE ItemsFrom(ls, (CHOOSE k \in at : TRUE) + 2)

\* C21: for every daily file, the sequence of entry titles the monthly
\* index lists for that file equals the sequence of titles in the file's
\* own TOC block.
C21_IndexListsTocTitles ==
    \A p \in DOMAIN fs :
        (IsDaily(p) /\ Exists(fs, IndexPath(<<p[1], p[2]>>))) =>
            IndexListed(fs[IndexPath(<<p[1], p[2]>>)], p[3]) = TocListed(fs[p])

----------------------------------------------------------------------------
(* Index rebuilds over an archive that already holds an entry *)

\* a body that quotes the two TOC markers
MarkerBody == <<"a", " ", TocStart, " ", "b", " ", TocEnd, " ", "c">>

\* the items whose save produced the archive a behaviour starts from
SeedNews ==
    [title : {<<"Q", "z">>}, link : {<<"v", "1">>},
     content : Bodies \cup {MarkerBody},
     date : {FmtDate([year |-> 2025, month |-> 1, day |-> 2])}, source : {<<"s">>}]

InitIndex ==
    /\ daily = NoDaily
    /\ \E news \in SeedNews, analysis \in Analyses :
          /\ fs = save_news(<<>>, news, analysis)
          /\ entries = Appended(<<>>, MdFile(NewsDate(news)), news)
    /\ last = NoOp
    /\ ncalls = 0
    /\ notion = {}
    /\ run = NoRun
    /\ collector = NoCollect
    /\ pure = NoPure

NextIndex == SaveNews \/ RegenerateAllIndexes

SpecIndex == InitIndex /\ [][NextIndex]_vars

SameDailyFiles(before, after) ==
    /\ \A p \in DOMAIN before : IsDaily(p) => (Exists(after, p) /\ after[p] = before[p])
    /\ \A p \in DOMAIN after : IsDaily(p) => Exists(before, p)

\* C22: rebuilding a month index leaves every daily file unchanged; a
\* rebuild that follows a rebuild writes identical index documents, and
\* regenerate_all_indexes right after a save_news leaves the index that
\* save_news wrote as it is.  Within save_news the rebuild changes no daily
\* file either: the target file is what _append_to_file left and the other
\* daily files are untouched.
C22_IndexRebuildIdempotent ==
    [][ /\ (last'.op = "regenerate_all_indexes" /\ ncalls' = ncalls + 1) =>
              /\ SameDailyFiles(fs, fs')
              /\ last.op = "regenerate_all_indexes" => fs' = fs
              /\ (last.op = "save_news" /\ last.ret) =>
                    fs'[IndexPath(<<last.path[1], last.path[2]>>)]
                        = fs[IndexPath(<<last.path[1], last.path[2]>>)]
        /\ (last'.op = "save_news" /\ ncalls' = ncalls + 1 /\ last'.ret) =>
              /\ \A p \in DOMAIN fs :
                    (IsDaily(p) /\ p # last'.path) =>
                        (Exists(fs', p) /\ fs'[p] = fs[p])
              /\ \E analysis \in Analyses :
                    fs'[last'.path]
                        = _append_to_file(fs, last'.path,
                                          _format_news(last'.news, analysis),
                                          NewsDate(last'.news))[last'.path] ]_vars

\* regenerate_all_indexes has run right after a save_news that added a
\* second entry, over an archive with an index in every month directory
C22_Witness ==
    /\ last.op = "regenerate_all_indexes" /\ ncalls = 2 /\ last.ret >= 1
    /\ SumOver({p \in DOMAIN fs : IsDaily(p)}, EntryCount) = 2
    /\ \A m \in MonthsOf(fs) : Exists(fs, IndexPath(m)) /\ ReadTotal(fs[IndexPath(m)]) >= 1

----------------------------------------------------------------------------
(* The life of a daily file *)

Rule == <<"-", "-", "-">>

\* the blocks of lines that the "---" rules of a text close
RECURSIVE SplitBlocks(_, _)
SplitBlocks(ls, cur) ==
    IF ls = <<>> THEN <<>>
    ELSE IF Head(ls) = Rule THEN <<cur>> \o SplitBlocks(Tail(ls), <<>>)
    ELSE SplitBlocks(Tail(ls), Append(cur, Head(ls)))

\* the entries of a daily file as written: the blocks after the file header
EntryTexts(content) == Tail(SplitBlocks(Lines(content), <<>>))

IsPrefixOf(a, b) == Len(a) <= Len(b) /\ SubSeq(b, 1, Len(a)) = a

\* C23: a daily file, once created, is never deleted or emptied; every
\* save_news that returns true adds exactly one entry after all existing
\* entries; the entries written earlier remain present, unchanged and in
\* their original order after any later save or TOC rebuild.
C23_DailyFileOnlyGrows ==
    [][ /\ \A p \in DOMAIN fs :
              IsDaily(p) =>
                  /\ Exists(fs', p) /\ fs'[p] # <<>>
                  /\ IsPrefixOf(EntryTexts(fs[p]), EntryTexts(fs'[p]))
        /\ (last'.op = "save_news" /\ ncalls' = ncalls + 1 /\ last'.ret) =>
              /\ Exists(fs', last'.path)
              /\ Len(EntryTexts(fs'[last'.path]))
                    = (IF Exists(fs, last'.path)
                       THEN Len(EntryTexts(fs[last'.path])) ELSE 0) + 1 ]_vars

----------------------------------------------------------------------------
(* The order of the steps of one iteration of run *)

\* the duplicate query of the remote sink was issued for the item
DedupeChecked == last.op = "item" /\ last.trace.query \in {"new", "duplicate", "raised"}

\* C24: for every collected item run classifies first, then makes the
\* dedupe checks, then writes to the sinks: no dedupe check of an item
\* happens before that item has been classified.
C24_ClassifiedBeforeDedupe ==
    DedupeChecked => last.trace.classified

----------------------------------------------------------------------------
(* Key sentences in the archive entry *)

\* the lines of the entry the last save_news appended
NewEntryLines ==
    LET texts == EntryTexts(fs[last.path]) IN texts[Len(texts)]

PositionsOf(ls, l) == {k \in 1..Len(ls) : ls[k] = l}

\* a line showing sentence s as a quotation or as a list item
ShowsSentence(line, s) == line = <<">", " ">> \o s \/ line = <<"-", " ">> \o s

\* C25: the archive entry rendered for a classification with a non-empty
\* key-sentence list contains each of its key sentences (up to 5) as a
\* quotation, between the summary and the collapsible full-body section.
C25_KeySentencesQuoted ==
    (last.op = "save_news" /\ last.ret) =>
        \A analysis \in Analyses :
            \A i \in 1..Len(Take(analysis.key_sentences, 5)) :
                \E k \in 1..Len(NewEntryLines) :
                    /\ ShowsSentence(NewEntryLines[k], analysis.key_sentences[i])
                    /\ \E s \in PositionsOf(NewEntryLines, analysis.summary) : s < k
                    /\ \E e \in PositionsOf(NewEntryLines, <<"<details>">>) : k < e

----------------------------------------------------------------------------
(* run_daily: the git commands and the exit status *)

GitCmds == [i \in 1..Len(daily.git) |-> daily.git[i].cmd]

LastGit == daily.git[Len(daily.git)]

\* run returned its statistics to main
RunCompleted == run.pc = "returned"

\* a step of main failed: the constructor or run raised, or the last git
\* command failed for a reason other than "nothing to commit"
FailingStep ==
    \/ run.pc \in {"idle", "raised"}
    \/ daily.git # <<>> /\ LastGit.answer = "failed"

\* C26: run_daily runs git add, git commit and git push in that order, each
\* only after the previous one succeeded; it runs no git command when no
\* item was newly saved or in dry-run mode, and exits 0 in those cases and on
\* "nothing to commit", and 1 on any other failing step.
C26_GitSequence ==
    daily.pc # "idle" =>
        /\ IsPrefixOf(GitCmds, <<"add", "commit", "push">>)
        /\ \A i \in 2..Len(daily.git) : daily.git[i - 1].answer = "ok"
        /\ daily.git # <<>> =>
              (RunCompleted /\ run.result.md_saved > 0 /\ ~daily.dry_run)
        /\ daily.pc = "exited" =>
              /\ daily.exit \in {"0", "1"}
              /\ (RunCompleted /\ (run.result.md_saved = 0 \/ daily.dry_run)) =>
                    daily.exit = "0"
              /\ (daily.git # <<>> /\ LastGit.answer = "nothing to commit") =>
                    (LastGit.cmd = "commit" /\ daily.exit = "0")
              /\ daily.exit = "1" <=> FailingStep

\* main has run the three commands and returned
C26_Witness ==
    /\ daily.pc = "exited" /\ daily.exit = "0"
    /\ GitCmds = <<"add", "commit", "push">>
    /\ run.result.md_saved = 2
    /\ daily.message = <<"d", "o", "c", "s", ":", " ", "1", "/", "2", ",", " ", "1", "/", "3">>

----------------------------------------------------------------------------
(* save_news that does not return true *)

\* the step processed an item whose save_news call did not return true
SaveNotTrue == last'.op = "item" /\ run'.done = run.done + 1
               /\ last'.trace.archive \in {"duplicate", "error"}

\* C27: save_news is all-or-nothing: whenever a save_news call does not
\* return true (it returns false or raises partway), the daily file holds
\* no new entry, so no entry exists in a daily file without being counted by
\* the run's md_saved counter.
C27_SaveAllOrNothing ==
    [][ SaveNotTrue =>
            /\ SameDailyFiles(fs, fs')
            /\ run'.md_saved = run.md_saved ]_vars

----------------------------------------------------------------------------
(* The relevance field and the sinks *)

\* the item of the last iteration was written to a sink
WrittenToSink ==
    last.op = "item"
    /\ (last.trace.remote = "created" \/ last.trace.archive = "saved")

\* C28: no item is written to either sink unless its classification record
\* says it is relevant (is_ai_related = true); a record that lacks the
\* relevance field does not cause a write.
C28_WrittenOnlyIfMarkedRelevant ==
    WrittenToSink =>
        /\ last.trace.analysis.kind = "object"
        /\ "is_ai_related" \in DOMAIN last.trace.analysis.fields
        /\ last.trace.analysis.fields.is_ai_related = TRUE

----------------------------------------------------------------------------
(* The statistics run returns *)

\* C29: at the end of run over N collected items, each item was counted in
\* at most one of skipped and filtered, uploaded <= N - skipped - filtered
\* and md_saved <= N - skipped - filtered; with the remote sink disabled
\* uploaded = 0 and skipped = 0; saved_dates is non-empty exactly when
\* md_saved > 0.
C29_StatisticsConsistent ==
    /\ [](run.pc = "returned" =>
            /\ run.result.skipped + run.result.filtered <= run.done
            /\ run.result.uploaded
                 <= run.done - run.result.skipped - run.result.filtered
            /\ run.result.md_saved
                 <= run.done - run.result.skipped - run.result.filtered
            /\ run.no_notion =>
                  (run.result.uploaded = 0 /\ run.result.skipped = 0)
            /\ run.result.saved_dates # <<>> <=> run.result.md_saved > 0)
    /\ [][ (run.pc = "loop" /\ run'.pc # "returned") =>
              (run'.skipped + run'.filtered) - (run.skipped + run.filtered)
                 \in (IF run'.done = run.done THEN {0} ELSE {0, 1}) ]_vars

\* run has returned after two items: one was found in the remote sink and
\* skipped, the other was written to both sinks
C29_Witness ==
    /\ run.pc = "returned" /\ run.done = 2 /\ ~run.no_notion
    /\ run.result.skipped = 1 /\ run.result.filtered = 0
    /\ run.result.uploaded = 1 /\ run.result.md_saved = 1
    /\ run.result.saved_dates = << <<"1", "/", "3">> >>

----------------------------------------------------------------------------
(* Running without a classifier credential *)

\* main was started with --no-ai while neither classifier key is set
NoAiNoKeys == daily.pc \notin {"idle", "start"} /\ daily.no_ai /\ daily.keys = {}

\* C30: with AI analysis turned off (--no-ai) a run needs no classifier
\* credential: the bot is constructed and runs to completion with the
\* keyword classifier when neither classifier API key is set.
C30_NoAiNeedsNoKey ==
    NoAiNoKeys =>
        /\ run.pc # "idle"
        /\ daily.pc = "exited" => run.pc = "returned"

====
